---- MODULE Spec2Model ----
(***************************************************************************)
(* Analytical-Intelligence backend: ingestion handlers, the dedup/cooldown *)
(* decision of the flow path, the SSH event tracker and detector.          *)
(*                                                                         *)
(* Times are seconds.  Scores are in thousandths (1000 stands for 1.0).    *)
(* An optional value (Python None, SQL NULL) is the empty tuple <<>>, a    *)
(* present value v is the one-element tuple <<v>>.                         *)
(***************************************************************************)
EXTENDS Integers, Sequences, FiniteSets, TLC

VARIABLES
    detections,     \* committed rows of table detections
    raw_events,     \* committed rows of table raw_events
    det_seq,        \* last value of the detections id sequence
    raw_seq,        \* last value of the raw_events id sequence
    resp,           \* the response of the last finished ingest request
    nreq,           \* number of ingest requests started so far
    sess,           \* per in-flight flow request: its session and position
    ip_tokens,      \* ssh_tracker.ip_tokens
    ip_failed_counts, \* ssh_tracker.ip_failed_counts
    ssh_loaded,     \* ssh_lstm_model.loaded (and model is not None)
    call,           \* the arguments of the last analyze_auth_event call
    ret,            \* what the last analyze_auth_event call returned
    ip_tz,          \* per address: tzinfo kinds of the datetimes the tracker holds
    observed,       \* the analyze_auth_event calls so far, in the order they ran
    notification_bus, \* bus._notification_bus is set (get_notification_bus())
    settings,       \* the telegram_* settings the bus reads
    running,        \* NotificationBus._running
    queue,          \* NotificationBus._queue
    worker,         \* the task running NotificationBus._worker
    dedup_cache,    \* NotificationBus._dedup_cache: pairs <<hash, expiry>>
    send_timestamps, \* NotificationBus._send_timestamps
    clock,          \* time.time()
    bus_log,        \* what the worker logged for each alert it finished
    enq             \* the last enqueue_alert call and how it ended

busVars == <<notification_bus, settings, running, queue, worker, dedup_cache,
             send_timestamps, clock, bus_log, enq>>
tzVars == <<ip_tz, observed>>

vars == <<detections, raw_events, det_seq, raw_seq, resp, nreq, sess,
          ip_tokens, ip_failed_counts, ssh_loaded, call, ret, tzVars, busVars>>

dbVars == <<detections, raw_events, det_seq, raw_seq>>
sshVars == <<ip_tokens, ip_failed_counts, ssh_loaded, call, ret>>

-----------------------------------------------------------------------------
(* Bounds of the model *)

MaxRequests == 3        \* flow ingest requests, handled one at a time
MaxConcRequests == 4    \* flow ingest requests of the concurrent specification
MaxSessions == 2        \* sessions open at the same time
MaxObservations == 5    \* analyze_auth_event calls, any timestamps and lines
MaxBurst == 22          \* analyze_auth_event calls of one burst
MaxAuthRequests == 6    \* auth ingest requests
MaxAlerts == 3          \* alerts given to the bus
MaxDupAlerts == 11      \* alerts of one burst sharing a hash
MaxRateAlerts == 4      \* alerts of distinct hashes given to the bus
MaxRateClock == 120     \* the last value of the clock in the rate runs
MaxStops == 1           \* sentinels waiting in the queue
MaxClock == 30          \* the last value of the clock, seconds
ClockStep == 30         \* the step of the clock, seconds
MaxConcAuthRequests == 5 \* auth ingest requests of the concurrent specification

None == <<>>
Some(v) == <<v>>

-----------------------------------------------------------------------------
(* Settings *)

ml_dedup_window_seconds == 300
ml_cooldown_seconds_per_src == 3600
ssh_bruteforce_window_seconds == 300
ssh_bruteforce_threshold == 5
\* ssh_lstm_model.window_size and .threshold (0.5)
window_size == 10
model_threshold == 500
\* timedelta(hours=1) of the tracker
TrackerRetentionSeconds == 3600
\* len(token_seq) >= 3
MinTokenHistory == 3

-----------------------------------------------------------------------------
(* Inputs of the flow path *)

Flow(src, dst, dport, label) ==
    [src_ip |-> src, dst_ip |-> dst, src_port |-> 40000, dst_port |-> dport,
     protocol |-> 6, pred |-> label, score |-> 950]

\* pred is the normalized label the classifier pipeline ends with for the
\* flow; "" stands for a flow that analyze_flow filters out.
\* src_ip "" is a flow without source address, dst_port 0 a flow without
\* ports (ICMP).
Flows ==
    { Flow("1.2.3.4", "10.0.0.1", 80, "DDoS"),
      Flow("1.2.3.4", "10.0.0.1", 443, "DDoS"),
      Flow("1.2.3.4", "10.0.0.1", 80, "DoS"),
      Flow("1.2.3.4", "10.0.0.1", 0, "DDoS"),
      Flow("", "10.0.0.1", 80, "DDoS"),
      Flow("", "10.0.0.1", 443, "DDoS"),
      Flow("1.2.3.4", "10.0.0.2", 80, "DDoS"),
      Flow("1.2.3.4", "10.0.0.1", 80, "") }

Times == {0, 10, 200, 300, 400, 3600}

ConcFlows ==
    { Flow("1.2.3.4", "10.0.0.1", 80, "DDoS"),
      Flow("1.2.3.4", "10.0.0.1", 443, "DDoS") }

ConcTimes == {0, 10}

-----------------------------------------------------------------------------
(* Python str: the characters of the strings that occur, and the str       *)
(* methods the detectors call on them                                      *)

\* the characters of each label, pattern and table key of the model
LabelChars ==
       "DoS" :> <<"D", "o", "S">> @@
       "DDoS" :> <<"D", "D", "o", "S">> @@
       "Port Scanning" :> <<"P", "o", "r", "t", " ", "S", "c", "a", "n", "n", "i", "n", "g">> @@
       "Brute Force" :> <<"B", "r", "u", "t", "e", " ", "F", "o", "r", "c", "e">> @@
       "Bots" :> <<"B", "o", "t", "s">> @@
       "Web Attacks" :> <<"W", "e", "b", " ", "A", "t", "t", "a", "c", "k", "s">> @@
       "Normal Traffic" :> <<"N", "o", "r", "m", "a", "l", " ", "T", "r", "a", "f", "f", "i", "c">> @@
       "PortScan" :> <<"P", "o", "r", "t", "S", "c", "a", "n">> @@
       "portscans" :> <<"p", "o", "r", "t", "s", "c", "a", "n", "s">> @@
       "Port Scans" :> <<"P", "o", "r", "t", " ", "S", "c", "a", "n", "s">> @@
       "port scanning" :> <<"p", "o", "r", "t", " ", "s", "c", "a", "n", "n", "i", "n", "g">> @@
       "PORT SCANNING" :> <<"P", "O", "R", "T", " ", "S", "C", "A", "N", "N", "I", "N", "G">> @@
       "BruteForce" :> <<"B", "r", "u", "t", "e", "F", "o", "r", "c", "e">> @@
       "bruteforce" :> <<"b", "r", "u", "t", "e", "f", "o", "r", "c", "e">> @@
       "Brute-Force" :> <<"B", "r", "u", "t", "e", "-", "F", "o", "r", "c", "e">> @@
       "brute force" :> <<"b", "r", "u", "t", "e", " ", "f", "o", "r", "c", "e">> @@
       "DDOS" :> <<"D", "D", "O", "S">> @@
       "ddos" :> <<"d", "d", "o", "s">> @@
       "DOS" :> <<"D", "O", "S">> @@
       "dos" :> <<"d", "o", "s">> @@
       "  Normal Traffic  " :> <<" ", " ", "N", "o", "r", "m", "a", "l", " ", "T", "r", "a", "f", "f", "i", "c", " ", " ">> @@
       " DoS" :> <<" ", "D", "o", "S">> @@
       "bots" :> <<"b", "o", "t", "s">> @@
       "normal traffic" :> <<"n", "o", "r", "m", "a", "l", " ", "t", "r", "a", "f", "f", "i", "c">> @@
       "" :> <<>> @@
       "   " :> <<" ", " ", " ">> @@
       "UNKNOWN" :> <<"U", "N", "K", "N", "O", "W", "N">> @@
       "unknown" :> <<"u", "n", "k", "n", "o", "w", "n">> @@
       "BENIGN" :> <<"B", "E", "N", "I", "G", "N">> @@
       "Benign" :> <<"B", "e", "n", "i", "g", "n">> @@
       "FTP-Patator" :> <<"F", "T", "P", "-", "P", "a", "t", "a", "t", "o", "r">> @@
       "Heartbleed" :> <<"H", "e", "a", "r", "t", "b", "l", "e", "e", "d">> @@
       "Infiltration" :> <<"I", "n", "f", "i", "l", "t", "r", "a", "t", "i", "o", "n">> @@
       "7" :> <<"7">> @@
       "portscan" :> <<"p", "o", "r", "t", "s", "c", "a", "n">> @@
       "port scans" :> <<"p", "o", "r", "t", " ", "s", "c", "a", "n", "s">> @@
       "brute-force" :> <<"b", "r", "u", "t", "e", "-", "f", "o", "r", "c", "e">> @@
       "patator" :> <<"p", "a", "t", "a", "t", "o", "r">> @@
       "brute" :> <<"b", "r", "u", "t", "e">> @@
       "scan" :> <<"s", "c", "a", "n">> @@
       "bot" :> <<"b", "o", "t">> @@
       "web" :> <<"w", "e", "b">> @@
       "BRUTE" :> <<"B", "R", "U", "T", "E">>

LabelStrings == DOMAIN LabelChars

Chars(s) == LabelChars[s]

\* the string of a character sequence
Str(cs) == CHOOSE s \in LabelStrings : LabelChars[s] = cs

UpperCase ==
    <<"A", "B", "C", "D", "E", "F", "G", "H", "I", "J", "K", "L", "M",
      "N", "O", "P", "Q", "R", "S", "T", "U", "V", "W", "X", "Y", "Z">>
LowerCase ==
    <<"a", "b", "c", "d", "e", "f", "g", "h", "i", "j", "k", "l", "m",
      "n", "o", "p", "q", "r", "s", "t", "u", "v", "w", "x", "y", "z">>

\* str.lower() and str.upper(), character by character
lower_char(c) ==
    IF \E i \in DOMAIN UpperCase : UpperCase[i] = c
    THEN LowerCase[CHOOSE i \in DOMAIN UpperCase : UpperCase[i] = c] ELSE c
upper_char(c) ==
    IF \E i \in DOMAIN LowerCase : LowerCase[i] = c
    THEN UpperCase[CHOOSE i \in DOMAIN LowerCase : LowerCase[i] = c] ELSE c
str_lower(cs) == [i \in DOMAIN cs |-> lower_char(cs[i])]
str_upper(cs) == [i \in DOMAIN cs |-> upper_char(cs[i])]

\* str.strip(): surrounding blanks go
RECURSIVE str_strip(_)
str_strip(cs) ==
    IF cs = <<>> THEN <<>>
    ELSE IF Head(cs) = " " THEN str_strip(Tail(cs))
    ELSE IF cs[Len(cs)] = " " THEN str_strip(SubSeq(cs, 1, Len(cs) - 1))
    ELSE cs

\* str.replace(ch, "")
str_remove(cs, ch) == SelectSeq(cs, LAMBDA c : c # ch)

\* sub in cs
str_contains(cs, sub) ==
    \E i \in 1..(Len(cs) - Len(sub) + 1) :
        SubSeq(cs, i, i + Len(sub) - 1) = sub

-----------------------------------------------------------------------------
(* severity.py *)

\* pattern in label_lower
InLabelLower(pattern, label) ==
    str_contains(str_lower(Chars(label)), Chars(pattern))

HasDdos(label) == InLabelLower("ddos", label)
HasDos(label) == InLabelLower("dos", label)
HasBrute(label) ==
    InLabelLower("patator", label) \/ InLabelLower("brute", label)
HasScan(label) == InLabelLower("scan", label) \/ InLabelLower("portscan", label)
HasBot(label) == InLabelLower("bot", label)

\* the default branch: by score alone
ScoreBand(score) ==
    IF score >= 950 THEN "HIGH" ELSE IF score >= 800 THEN "MEDIUM" ELSE "LOW"

get_network_ml_severity(label, score) ==
    IF HasDdos(label) THEN "CRITICAL"
    ELSE IF HasDos(label) THEN (IF score >= 900 THEN "CRITICAL" ELSE "HIGH")
    ELSE IF HasBrute(label) THEN "HIGH"
    ELSE IF HasScan(label) THEN "MEDIUM"
    ELSE IF HasBot(label) THEN "MEDIUM"
    ELSE ScoreBand(score)

get_ssh_severity(failed_count, is_model_anomaly, score) ==
    IF failed_count >= 20 THEN "CRITICAL"
    ELSE IF failed_count >= 10 \/ (is_model_anomaly /\ score >= 900) THEN "HIGH"
    ELSE IF failed_count >= 5 \/ is_model_anomaly THEN "MEDIUM"
    ELSE "LOW"

-----------------------------------------------------------------------------
(* network_ml_detector.py: label normalization *)

\* _LABEL_NORMALIZATION_MAP, in the order of the dict
LABEL_NORMALIZATION_MAP ==
    << <<"portscan", "Port Scanning">>,
       <<"portscans", "Port Scanning">>,
       <<"port scans", "Port Scanning">>,
       <<"bruteforce", "Brute Force">>,
       <<"brute-force", "Brute Force">>,
       <<"ddos", "DDoS">>,
       <<"dos", "DoS">> >>

\* .replace(" ", "").replace("-", "")
normalization_key(cs) == str_remove(str_remove(cs, " "), "-")

\* the canonical form without the lower-casing of the key
normalize_label_case_sensitive(normalization, label) ==
    IF label = "" THEN ""
    ELSE IF ~normalization THEN Str(str_strip(Chars(label)))
    ELSE
    LET stripped == str_strip(Chars(label))
        key == normalization_key(stripped)
        hits == {i \in DOMAIN LABEL_NORMALIZATION_MAP :
                    normalization_key(Chars(LABEL_NORMALIZATION_MAP[i][1])) = key}
    IN IF hits # {}
       THEN LABEL_NORMALIZATION_MAP[CHOOSE i \in hits : \A j \in hits : i <= j][2]
       ELSE Str(stripped)

\* normalize_label; normalization is NETWORK_ML_LABEL_NORMALIZATION
normalize_label(normalization, label) ==
    IF label = "" THEN ""
    ELSE IF ~normalization THEN Str(str_strip(Chars(label)))
    ELSE
    LET stripped == str_strip(Chars(label))
        key == normalization_key(str_lower(stripped))
        hits == {i \in DOMAIN LABEL_NORMALIZATION_MAP :
                    normalization_key(Chars(LABEL_NORMALIZATION_MAP[i][1])) = key}
    IN IF hits # {}
       THEN LABEL_NORMALIZATION_MAP[CHOOSE i \in hits : \A j \in hits : i <= j][2]
       ELSE Str(stripped)

-----------------------------------------------------------------------------
(* network_feature_mapper.py: the rate features of map_flow_to_features.    *)
(* A float is the fraction <<numerator, denominator>>.                      *)

MIN_FLOW_DURATION_MS == 50

\* flow_data.get(field, 0) or 0
or_zero(v) == IF v = None THEN 0 ELSE v[1]

\* the test with > in place of >=
rate_safe_duration_sec_strict(duration_ms) ==
    IF duration_ms > MIN_FLOW_DURATION_MS THEN <<duration_ms, 1000>>
    ELSE <<0, 1>>

\* duration_ms / 1000.0 from the minimum duration on, else 0.0
rate_safe_duration_sec(duration_ms) ==
    IF duration_ms >= MIN_FLOW_DURATION_MS THEN <<duration_ms, 1000>>
    ELSE <<0, 1>>

\* count / rate_safe_duration_sec if rate_safe_duration_sec > 0 else 0.0
rate(count, duration_sec) ==
    IF duration_sec[1] > 0 THEN <<count * duration_sec[2], duration_sec[1]>>
    ELSE <<0, 1>>

\* map_flow_to_features on a loaded model: the four rate features
map_flow_to_features(flow_data) ==
    LET duration_ms == or_zero(flow_data.bidirectional_duration_ms)
        safe == rate_safe_duration_sec(duration_ms)
    IN [FlowBytesPerS |-> rate(or_zero(flow_data.bidirectional_bytes), safe),
        FlowPacketsPerS |->
            rate(or_zero(flow_data.bidirectional_packets), safe),
        FwdPacketsPerS |-> rate(or_zero(flow_data.src2dst_packets), safe),
        BwdPacketsPerS |-> rate(or_zero(flow_data.dst2src_packets), safe)]

-----------------------------------------------------------------------------
(* models_loader.py: NetworkMLModel.predict *)

\* a class value of model.classes_: a numeric id or a string label
IntKey(id) == <<"int", id>>
StrKey(label) == <<"str", label>>

\* inverse_label_map: the label of id i is at position i + 1
inverse_label_map == <<"Normal Traffic", "Port Scanning", "DoS", "DDoS">>

\* benign_label
benign_label == "Normal Traffic"

\* np.argmax: the first position of the largest entry (positions from 1)
argmax(proba) ==
    CHOOSE i \in DOMAIN proba :
        /\ \A j \in DOMAIN proba : proba[j] <= proba[i]
        /\ \A j \in 1..(i - 1) : proba[j] < proba[i]

\* the argmax index taken as the class key, whatever classes_ holds
extract_label_and_score_raw_index(proba, classes) ==
    [key |-> IntKey(argmax(proba) - 1), score |-> proba[argmax(proba)]]

\* _extract_label_and_score with threshold 0.5; classes is None or the
\* sequence model.classes_
extract_label_and_score(proba, classes) ==
    IF Len(proba) = 2
    THEN LET score_pos == proba[2]
             is_pos == score_pos >= 500
             pos == IF is_pos THEN 2 ELSE 1
             score == IF is_pos THEN score_pos ELSE 1000 - score_pos
         IN IF classes # None /\ Len(classes[1]) = 2
            THEN [key |-> classes[1][pos], score |-> score]
            ELSE [key |-> IntKey(pos - 1), score |-> score]
    ELSE IF classes # None /\ Len(classes[1]) = Len(proba)
    THEN [key |-> classes[1][argmax(proba)], score |-> proba[argmax(proba)]]
    ELSE [key |-> IntKey(argmax(proba) - 1), score |-> proba[argmax(proba)]]

\* _label_from_key
label_from_key(key) ==
    IF key[1] = "str" THEN key[2]
    ELSE IF key[2] + 1 \in DOMAIN inverse_label_map
    THEN inverse_label_map[key[2] + 1]
    ELSE ToString(key[2])

\* what predict returns when it has no prediction
UnknownPrediction == [label |-> "UNKNOWN", score |-> 0, proba |-> <<>>]

\* predict: model is the wrapper (loaded, classes_, predict_proba raising
\* or not), proba the row predict_proba returns
predict(model, proba) ==
    IF ~model.loaded THEN UnknownPrediction
    ELSE IF model.raises THEN UnknownPrediction
    ELSE IF proba = <<>> THEN UnknownPrediction
    ELSE LET e == extract_label_and_score(proba, model.classes)
         IN [label |-> label_from_key(e.key), score |-> e.score,
             proba |-> proba]

-----------------------------------------------------------------------------
(* network_ml_detector.analyze_flow: the detection it returns *)

analyze_flow(flow) ==
    IF flow.pred = "" THEN None
    ELSE Some([model_name |-> "network_rf",
               label |-> flow.pred,
               score |-> flow.score,
               severity |-> get_network_ml_severity(flow.pred, flow.score),
               details |-> [src_ip |-> flow.src_ip, dst_ip |-> flow.dst_ip,
                            src_port |-> flow.src_port,
                            dst_port |-> flow.dst_port,
                            protocol |-> flow.protocol]])

-----------------------------------------------------------------------------
(* network_ml_detector.analyze_flow: the filter stages.  env holds the      *)
(* module flags read from the environment, _label_thresholds and the        *)
(* allowlist settings; model is the loaded wrapper, proba the row the       *)
(* classifier returns for the flow.                                         *)

MIN_VOLUME_ATTACK_DURATION_MS == 100
MIN_VOLUME_ATTACK_PACKETS == 10
MIN_VOLUME_ATTACK_BYTES == 1000
network_ml_threshold == 600
ml_min_flow_rate_pps == 100
ml_min_bytes_per_second == 1000

\* os.environ defaults of the six filter flags
DefaultFlags ==
    [STRICT_FILTERS |-> FALSE,
     DISABLE_GATING |-> TRUE,
     DISABLE_ALLOWLIST |-> FALSE,
     DISABLE_BROADCAST_FILTER |-> FALSE,
     DISABLE_KNOWN_LABEL_CHECK |-> TRUE,
     LABEL_NORMALIZATION |-> TRUE]

\* settings.network_label_allowlist_set with the default list
DefaultAllowlist == {"DoS", "DDoS", "Port Scanning", "Brute Force"}

\* addresses starting with ff02: once lowered
Ff02Addresses == {"ff02::1", "FF02::FB"}

\* the broadcast/DHCP test
is_broadcast(flow_data) ==
    \/ flow_data.src_ip = "0.0.0.0"
    \/ flow_data.dst_ip = "255.255.255.255"
    \/ flow_data.dst_port \in {67, 68}
    \/ flow_data.dst_ip \in Ff02Addresses
    \/ flow_data.src_ip = "::"

\* the reject test with the benign label only
is_benign_or_unknown_benign_only(label) == label = benign_label

\* label == benign_label or label.upper() in ("UNKNOWN", "BENIGN", "")
is_benign_or_unknown(label) ==
    \/ label = benign_label
    \/ str_upper(Chars(label)) \in {Chars("UNKNOWN"), Chars("BENIGN"), Chars("")}

\* set(network_ml_model.label_map.keys())
known_labels == {inverse_label_map[i] : i \in DOMAIN inverse_label_map}

\* known and label not in known
is_unknown_label(label) == known_labels # {} /\ label \notin known_labels

\* an allowlist test that lets every label through
is_label_allowed_any(env, label) == TRUE

\* is_label_allowed
is_label_allowed(env, label) ==
    IF env.DISABLE_ALLOWLIST THEN TRUE
    ELSE IF env.allowlist = {} THEN TRUE
    ELSE label \in env.allowlist

\* any(v in label.upper() for v in ["DDOS", "DOS", "BRUTE"])
is_volume_attack(label) ==
    \E v \in {"DDOS", "DOS", "BRUTE"} :
        str_contains(str_upper(Chars(label)), Chars(v))

\* the gating layer of a volume attack label: TRUE when the flow is dropped
gating_rejects(flow_data) ==
    LET duration_ms == or_zero(flow_data.bidirectional_duration_ms)
        total_packets == or_zero(flow_data.bidirectional_packets)
        total_bytes == or_zero(flow_data.bidirectional_bytes)
    IN \/ duration_ms < MIN_VOLUME_ATTACK_DURATION_MS
       \/ total_packets < MIN_VOLUME_ATTACK_PACKETS
       \/ total_bytes < MIN_VOLUME_ATTACK_BYTES
       \/ /\ duration_ms >= 50
          /\ \/ total_packets * 1000 < ml_min_flow_rate_pps * duration_ms
             \/ total_bytes * 1000 < ml_min_bytes_per_second * duration_ms

\* _label_thresholds.get(label, settings.network_ml_threshold)
required_threshold(env, label) ==
    IF label \in DOMAIN env.label_thresholds THEN env.label_thresholds[label]
    ELSE network_ml_threshold

\* the threshold test with > in place of >=
meets_threshold_strict(score, required) == score > required

\* score >= required_threshold
meets_threshold(score, required) == score >= required

\* the steps of analyze_flow from the prediction on, each one a return None
\* unless the flow passes it
passes_benign(env, label) == ~is_benign_or_unknown(label)

passes_known_label(env, label) ==
    env.DISABLE_KNOWN_LABEL_CHECK \/ ~is_unknown_label(label)

passes_allowlist(env, label) == is_label_allowed(env, label)

passes_gating(env, label, flow_data) ==
    ~(/\ ~env.DISABLE_GATING /\ env.STRICT_FILTERS
      /\ is_volume_attack(label)
      /\ gating_rejects(flow_data))

\* what a non-allowed label returns; settings.network_non_allow_action
\* selects one of three branches
non_allowed_result(action) ==
    IF action = "ignore" THEN None
    ELSE IF action = "map_to_normal" THEN None
    ELSE None

\* the label analyze_flow works with: the prediction, normalized
predicted_label(env, model, proba) ==
    normalize_label(env.LABEL_NORMALIZATION, predict(model, proba).label)

\* analyze_flow: the detection dict or None
analyze_flow_filters(env, model, proba, flow_data) ==
    IF ~model.loaded THEN None
    ELSE IF ~env.DISABLE_BROADCAST_FILTER /\ is_broadcast(flow_data) THEN None
    ELSE
    LET score == predict(model, proba).score
        label == predicted_label(env, model, proba)
    IN IF ~passes_benign(env, label) THEN None
       ELSE IF ~passes_known_label(env, label) THEN None
       ELSE IF ~passes_allowlist(env, label)
       THEN non_allowed_result(env.non_allow_action)
       ELSE IF ~passes_gating(env, label, flow_data) THEN None
       ELSE IF meets_threshold(score, required_threshold(env, label))
       THEN Some([model_name |-> "network_rf",
                  label |-> label,
                  score |-> score,
                  severity |-> get_network_ml_severity(label, score)])
       ELSE None

-----------------------------------------------------------------------------
(* flow_ingest.py: parameters of the queries and of the insert *)

\* str(v) if v else ""
StrOrEmpty(v) == IF v = "" THEN "" ELSE v
\* int(v) if v else 0
IntOrZero(v) == IF v = 0 THEN 0 ELSE v
\* str(v) if v else None
StrOrNone(v) == IF v = "" THEN None ELSE Some(v)
\* int(v) if v else None
IntOrNone(v) == IF v = 0 THEN None ELSE Some(v)

\* SQL "column = :param": never true of a NULL column
SqlEq(col, param) == col = Some(param)

\* ORDER BY ts DESC LIMIT 1 over the rows a WHERE clause selects: any row
\* with the greatest ts
FirstByTsDesc(rows) == {r \in rows : \A o \in rows : o.ts <= r.ts}

DedupMatches(table, label, cutoff, src_ip, dst_ip, dst_port) ==
    {r \in table :
        /\ r.model_name = "network_rf"
        /\ r.label = label
        /\ r.ts > cutoff
        /\ SqlEq(r.src_ip, src_ip)
        /\ SqlEq(r.dst_ip, dst_ip)
        /\ SqlEq(r.dst_port, dst_port)}

CooldownMatches(table, label, cutoff, src_ip) ==
    {r \in table :
        /\ r.model_name = "network_rf"
        /\ SqlEq(r.src_ip, src_ip)
        /\ r.label = label
        /\ r.ts > cutoff}

dedup_query(table, det, ts) ==
    FirstByTsDesc(DedupMatches(table, det.label,
                               ts - ml_dedup_window_seconds,
                               StrOrEmpty(det.details.src_ip),
                               StrOrEmpty(det.details.dst_ip),
                               IntOrZero(det.details.dst_port)))

cooldown_query(table, det, ts) ==
    FirstByTsDesc(CooldownMatches(table, det.label,
                                  ts - ml_cooldown_seconds_per_src,
                                  StrOrEmpty(det.details.src_ip)))

\* existing[1] or 1, plus one
new_occurrences(existing) ==
    (IF existing.occurrences = 0 THEN 1 ELSE existing.occurrences) + 1

\* UPDATE detections SET occurrences, last_seen WHERE id
update_detection(table, id, occurrences, ts) ==
    {IF r.id = id THEN [r EXCEPT !.occurrences = occurrences, !.last_seen = ts]
     ELSE r : r \in table}

\* The row insert_detection adds for a flow detection
FlowDetectionRow(id, ts, event_id, det) ==
    [id |-> id, ts |-> ts, raw_event_id |-> event_id,
     model_name |-> det.model_name, label |-> det.label,
     score |-> det.score, severity |-> det.severity,
     details |-> det.details,
     occurrences |-> 1, first_seen |-> ts, last_seen |-> ts,
     src_ip |-> StrOrNone(det.details.src_ip),
     dst_ip |-> StrOrNone(det.details.dst_ip),
     src_port |-> IntOrNone(det.details.src_port),
     dst_port |-> IntOrNone(det.details.dst_port)]

RawEventRow(id, ts, event_type, payload) ==
    [id |-> id, ts |-> ts, event_type |-> event_type, payload |-> payload]

IngestResponse(event_id, detection_id) ==
    [status |-> "accepted", event_id |-> event_id,
     detection_id |-> detection_id, detail |-> ""]

NoResponse ==
    [status |-> "none", event_id |-> 0, detection_id |-> None, detail |-> ""]

\* HTTPException(status_code=500) after session.rollback()
HTTPError(detail) ==
    [status |-> "error", event_id |-> 0, detection_id |-> None,
     detail |-> detail]


-----------------------------------------------------------------------------
(* ssh_lstm_detector.py: parsing of an auth.log line *)

\* TOKEN_PATTERNS, in order: the token of the i-th pattern
TOKEN_PATTERNS ==
    <<"INVALID_USER", "FAILED_PASSWORD", "INVALID_USER", "ACCEPTED_PASSWORD",
      "ACCEPTED_PUBLICKEY", "DISCONNECT", "CONNECTION_CLOSED",
      "REVERSE_DNS_FAIL", "REVERSE_DNS_FAIL", "PAM_AUTH_FAILURE",
      "AUTH_FAILURE", "SESSION_OPENED", "SESSION_CLOSED">>

TokenNames == {TOKEN_PATTERNS[i] : i \in DOMAIN TOKEN_PATTERNS} \cup {"OTHER"}

FailureTokens ==
    {"FAILED_PASSWORD", "INVALID_USER", "PAM_AUTH_FAILURE", "AUTH_FAILURE"}

\* A line is given by the patterns of TOKEN_PATTERNS that match it and by
\* the address each of the three IP_PATTERNS finds in it ("" for no match)
Line(pats, from_ip, rhost, bracket) ==
    [pats |-> pats, from_ip |-> from_ip, rhost |-> rhost, bracket |-> bracket]

\* "Failed password for root from 10.0.0.5 port 44000 ssh2"
FailedPasswordLine(ip) == Line({2}, ip, "", "")
\* "Failed password for invalid user admin from 10.0.0.5 port 44000 ssh2"
InvalidUserLine(ip) == Line({1, 2, 3}, ip, "", "")
\* "Accepted password for root from 10.0.0.5 port 44000 ssh2"
AcceptedPasswordLine(ip) == Line({4}, ip, "", "")
\* "pam_unix(sshd:auth): authentication failure; ... rhost=10.0.0.5"
PamFailureLine(ip) == Line({10, 11}, "", ip, "")
\* "pam_unix(sshd:session): session opened for user root"
SessionOpenedLine == Line({12}, "", "", "")

parse_auth_line(line) ==
    [token_name |->
        IF line.pats = {} THEN "OTHER"
        ELSE TOKEN_PATTERNS[CHOOSE i \in line.pats : \A j \in line.pats : i <= j],
     src_ip |->
        IF line.from_ip # "" THEN Some(line.from_ip)
        ELSE IF line.rhost # "" THEN Some(line.rhost)
        ELSE IF line.bracket # "" THEN Some(line.bracket)
        ELSE None]

\* The vocabulary of the loaded model bundle
token2id ==
    [t \in TokenNames |->
        CASE t = "OTHER" -> 0
          [] t = "INVALID_USER" -> 1
          [] t = "FAILED_PASSWORD" -> 2
          [] t = "ACCEPTED_PASSWORD" -> 3
          [] t = "ACCEPTED_PUBLICKEY" -> 4
          [] t = "DISCONNECT" -> 5
          [] t = "CONNECTION_CLOSED" -> 6
          [] t = "REVERSE_DNS_FAIL" -> 7
          [] t = "PAM_AUTH_FAILURE" -> 8
          [] t = "AUTH_FAILURE" -> 9
          [] t = "SESSION_OPENED" -> 10
          [] t = "SESSION_CLOSED" -> 11]

-----------------------------------------------------------------------------
(* ssh_lstm_detector.py: SSHEventTracker *)

\* SSHEventTracker.add_event: the token list of the address afterwards
add_event(tokens, token_id, timestamp) ==
    LET cutoff == timestamp - TrackerRetentionSeconds
        Recent(e) == e[1] > cutoff
    IN SelectSeq(Append(tokens, <<timestamp, token_id>>), Recent)

\* SSHEventTracker.add_failed_attempt
add_failed_attempt(failed, timestamp) ==
    LET cutoff == timestamp - TrackerRetentionSeconds
        Recent(t) == t > cutoff
    IN SelectSeq(Append(failed, timestamp), Recent)

\* SSHEventTracker.get_failed_count_in_window
get_failed_count_in_window(failed, timestamp, window_sec) ==
    LET cutoff == timestamp - window_sec
        InWindow(t) == t > cutoff
    IN Len(SelectSeq(failed, InWindow))

\* sorted(tokens, key=lambda x: x[0]): stable, by timestamp
RECURSIVE SortedByTime(_)
SortedByTime(tokens) ==
    IF tokens = <<>> THEN <<>>
    ELSE LET first == CHOOSE i \in DOMAIN tokens :
                         \A j \in DOMAIN tokens :
                            \/ tokens[i][1] < tokens[j][1]
                            \/ (tokens[i][1] = tokens[j][1] /\ i <= j)
             rest == [k \in 1..(Len(tokens) - 1) |->
                         IF k < first THEN tokens[k] ELSE tokens[k + 1]]
         IN <<tokens[first]>> \o SortedByTime(rest)

\* SSHEventTracker.get_token_sequence
get_token_sequence(tokens, size) ==
    LET sorted == SortedByTime(tokens)
        n == Len(sorted)
        from == IF n > size THEN n - size + 1 ELSE 1
    IN [k \in 1..(n - from + 1) |-> sorted[from + k - 1][2]]

-----------------------------------------------------------------------------
(* ssh_lstm_detector.py: analyze_auth_event *)

\* The threshold test with > in place of >=
threshold_reached_strict(failed_count) == failed_count > ssh_bruteforce_threshold

\* failed_count >= fail_threshold
threshold_reached(failed_count) == failed_count >= ssh_bruteforce_threshold

\* the model is asked only with some history
model_consulted(tokens) ==
    ssh_loaded /\ Len(get_token_sequence(tokens, window_size)) >= MinTokenHistory

\* max(anomaly_score, failed_count / 20.0), in thousandths
combined_score(anomaly_score, failed_count) ==
    IF anomaly_score >= failed_count * 50 THEN anomaly_score
    ELSE failed_count * 50

\* What the call returns and the tracker it leaves, run on the tracker
\* (tracker_tokens, tracker_failed).  pred is the score the model gives the
\* token sequence, read only when the model is consulted.
analyze_on(tracker_tokens, tracker_failed, line, timestamp, pred) ==
    LET parsed == parse_auth_line(line) IN
    IF parsed.src_ip = None
    THEN [ip_tokens |-> tracker_tokens, ip_failed_counts |-> tracker_failed,
          ret |-> None]
    ELSE
    LET src_ip == parsed.src_ip[1]
        token_name == parsed.token_name
        token_id == IF ssh_loaded THEN token2id[token_name] ELSE 0
        tokens == add_event(tracker_tokens[src_ip], token_id, timestamp)
        failed == IF token_name \in FailureTokens
                  THEN add_failed_attempt(tracker_failed[src_ip], timestamp)
                  ELSE tracker_failed[src_ip]
        consulted == model_consulted(tokens)
        anomaly_score == IF consulted THEN pred ELSE 0
        is_model_anomaly == consulted /\ pred >= model_threshold
        failed_count == get_failed_count_in_window(failed, timestamp,
                                         ssh_bruteforce_window_seconds)
        is_anomaly == is_model_anomaly \/ threshold_reached(failed_count)
        label == IF threshold_reached(failed_count) THEN "SSH_BRUTE_FORCE"
                 ELSE IF is_model_anomaly THEN "SSH_ANOMALY"
                 ELSE "SSH_SUSPICIOUS"
    IN [ip_tokens |-> [tracker_tokens EXCEPT ![src_ip] = tokens],
        ip_failed_counts |-> [tracker_failed EXCEPT ![src_ip] = failed],
        ret |-> IF ~is_anomaly THEN None
                ELSE Some([model_name |-> "ssh_lstm",
                           label |-> label,
                           score |-> combined_score(anomaly_score, failed_count),
                           severity |-> get_ssh_severity(failed_count,
                                            is_model_anomaly, anomaly_score),
                           details |-> [src_ip |-> src_ip,
                                        token |-> token_name,
                                        failed_count |-> failed_count,
                                        model_score |-> anomaly_score,
                                        model_triggered |-> is_model_anomaly]])]

\* The call on the global tracker ssh_tracker
analyze_auth_event(line, timestamp, pred) ==
    analyze_on(ip_tokens, ip_failed_counts, line, timestamp, pred)

\* A datetime is offset-aware (TRUE) or offset-naive (FALSE); comparing one
\* of each kind raises TypeError.  add_event compares every timestamp the
\* address holds, the one just appended included, with timestamp - 1 hour.
add_event_raises(kinds, aware) == \E k \in kinds : k # aware

\* The call raises in add_event
analyze_raises(line, aware) ==
    LET parsed == parse_auth_line(line) IN
    /\ parsed.src_ip # None
    /\ add_event_raises(ip_tz[parsed.src_ip[1]], aware)

\* The token list a raising call leaves: appended to, not pruned
tokens_after_raise(line, timestamp) ==
    LET parsed == parse_auth_line(line)
        src_ip == parsed.src_ip[1]
        token_id == IF ssh_loaded THEN token2id[parsed.token_name] ELSE 0
    IN [ip_tokens EXCEPT ![src_ip] = Append(@, <<timestamp, token_id>>)]

\* The kinds of datetime the tracker holds after a call
tz_after(line, aware) ==
    LET parsed == parse_auth_line(line) IN
    IF parsed.src_ip = None THEN ip_tz
    ELSE [ip_tz EXCEPT ![parsed.src_ip[1]] = @ \cup {aware}]

-----------------------------------------------------------------------------
(* notifications/types.py *)

SEVERITY_ORDER ==
    [INFO |-> 0, LOW |-> 1, MEDIUM |-> 2, HIGH |-> 3, CRITICAL |-> 4]

\* str.upper() on the severities that occur
upper(severity) ==
    CASE severity = "high" -> "HIGH"
      [] severity = "medium" -> "MEDIUM"
      [] severity = "low" -> "LOW"
      [] OTHER -> severity

\* SEVERITY_ORDER.get(severity.upper(), default)
severity_value(severity, default) ==
    IF upper(severity) \in DOMAIN SEVERITY_ORDER
    THEN SEVERITY_ORDER[upper(severity)] ELSE default

\* The gate with the minimum lowered by one rank
severity_meets_threshold_lenient(severity, min_severity) ==
    severity_value(severity, 0) + 1 >= severity_value(min_severity, 3)

severity_meets_threshold(severity, min_severity) ==
    severity_value(severity, 0) >= severity_value(min_severity, 3)

\* A DetectionAlert: the fields the bus reads
DetectionAlert(detection_id, device_id, label, severity, src_ip, dst_ip) ==
    [detection_id |-> detection_id, device_id |-> device_id,
     model_name |-> "ssh_lstm", label |-> label, severity |-> severity,
     src_ip |-> src_ip, dst_ip |-> dst_ip, dst_port |-> Some(22)]

-----------------------------------------------------------------------------
(* notifications/bus.py: NotificationBus *)

\* the sentinel stop() puts on the queue
Sentinel == [sentinel |-> TRUE]

\* _retry_delays + [None]: the attempts of one delivery
MaxAttempts == 4

\* self._retry_delays, milliseconds
retry_delays == <<500, 1000, 2000>>

\* the delays with a fourth retry after 2 s more
retry_delay_fourth(attempt) ==
    IF attempt <= Len(retry_delays) THEN Some(retry_delays[attempt])
    ELSE IF attempt = Len(retry_delays) + 1 THEN Some(2000)
    ELSE None

\* (self._retry_delays + [None])[attempt - 1]: the sleep after a failed
\* attempt, None after the last
retry_delay(attempt) ==
    IF attempt <= Len(retry_delays) THEN Some(retry_delays[attempt])
    ELSE None

\* the trailing window of the rate limit, seconds
RateWindowSeconds == 60

\* str(alert.get("dst_port", ""))
str_port(dst_port) == IF dst_port = None THEN "None" ELSE ToString(dst_port[1])

\* "|".join(key_parts) raises TypeError when a part is None
hash_raises(alert) == alert.src_ip = None \/ alert.dst_ip = None

\* _compute_alert_hash: the digest stands for the key parts it is taken of
\* (no two key strings of the model share a digest)
compute_alert_hash(alert) ==
    <<alert.label, alert.severity, alert.device_id, alert.src_ip[1],
      alert.dst_ip[1], str_port(alert.dst_port), alert.model_name>>

\* a cleanup that empties the cache
cleanup_dedup_cache_clear(cache, now) == {}

\* _cleanup_dedup_cache: entries with expiry <= now go
cleanup_dedup_cache(cache, now) == {e \in cache : e[2] > now}

\* _cleanup_rate_window: timestamps older than now - 60 are popped from the
\* left while the leftmost is older
RECURSIVE cleanup_rate_window(_, _)
cleanup_rate_window(window, now) ==
    IF window # <<>> /\ Head(window) < now - RateWindowSeconds
    THEN cleanup_rate_window(Tail(window), now)
    ELSE window

\* the entry of the hash is in the cache
in_dedup_cache(cache, hash) == \E e \in cache : e[1] = hash

\* the rate test with > in place of >=
rate_limited_strict(window, rate_limit) == Len(window) > rate_limit

\* len(self._send_timestamps) >= self._rate_limit
rate_limited(window, rate_limit) == Len(window) >= rate_limit

\* the expiry stored without the window added
record_sent_no_window(cache, hash, now) ==
    {e \in cache : e[1] # hash} \cup {<<hash, now>>}

\* self._dedup_cache[alert_hash] = now + self._dedup_window
record_sent(cache, hash, now) ==
    {e \in cache : e[1] # hash}
        \cup {<<hash, now + settings.telegram_dedup_window_seconds>>}

\* _process_alert up to the first await: what it decides for the alert at
\* time now, and the cache and rate window it leaves
process_alert(alert, now) ==
    IF ~severity_meets_threshold(alert.severity,
                                 settings.telegram_min_severity)
    THEN [outcome |-> "SeverityGated", cache |-> dedup_cache,
          window |-> send_timestamps]
    ELSE IF hash_raises(alert)
    THEN [outcome |-> "Error", cache |-> dedup_cache,
          window |-> send_timestamps]
    ELSE
    LET cache == cleanup_dedup_cache(dedup_cache, now) IN
    IF in_dedup_cache(cache, compute_alert_hash(alert))
    THEN [outcome |-> "Deduped", cache |-> cache, window |-> send_timestamps]
    ELSE
    LET window == cleanup_rate_window(send_timestamps, now) IN
    IF rate_limited(window, settings.telegram_rate_limit_per_min)
    THEN [outcome |-> "RateLimited", cache |-> cache, window |-> window]
    ELSE [outcome |-> "send", cache |-> cache, window |-> window]

\* enqueue_alert raising on a bus that is not running, where the code
\* returns
enqueue_alert_raising(alert) ==
    IF ~running THEN [queue |-> queue, raised |-> TRUE]
    ELSE [queue |-> Append(queue, alert), raised |-> FALSE]

\* an enqueue that puts the alert in front of the waiting ones
enqueue_alert_front(alert) ==
    IF ~running THEN [queue |-> queue, raised |-> FALSE]
    ELSE [queue |-> <<alert>> \o queue, raised |-> FALSE]

\* enqueue_alert: the queue it leaves; put_nowait on the unbounded queue
\* never raises QueueFull, and any exception is caught
enqueue_alert(alert) ==
    IF ~running THEN [queue |-> queue, raised |-> FALSE]
    ELSE [queue |-> Append(queue, alert), raised |-> FALSE]

\* what the worker task is doing
NoWorker ==
    [pc |-> "none", alert |-> None, attempt |-> 0, now |-> 0,
     delay |-> None]

\* the state of the bus an enqueue_alert call finds
bus_state ==
    IF running
    THEN (IF worker.pc \in {"sending", "backoff"} THEN "busy" ELSE "running")
    ELSE (IF worker.pc = "none" THEN "never_started" ELSE "stopped")

-----------------------------------------------------------------------------
(* The initial state: empty tables, tracker as constructed *)

TrackedIps == {"10.0.0.5"}

Devices == {"sensor-a", "sensor-b"}

\* The telegram_* settings of the environment
TelegramSettings ==
    { [telegram_min_severity |-> "HIGH", telegram_rate_limit_per_min |-> 2,
       telegram_dedup_window_seconds |-> 60],
      [telegram_min_severity |-> "medium", telegram_rate_limit_per_min |-> 1,
       telegram_dedup_window_seconds |-> 30] }

\* A session that is not in use
NoSession ==
    [pc |-> "idle", device_id |-> "", ts |-> 0, event_id |-> 0,
     flow |-> None, detection |-> None, existing |-> None,
     upd |-> None, ins |-> None, detection_id |-> None,
     line |-> None, view |-> None]

Init ==
    /\ detections = {}
    /\ raw_events = {}
    /\ det_seq = 0
    /\ raw_seq = 0
    /\ resp = NoResponse
    /\ nreq = 0
    /\ sess = [s \in 1..MaxSessions |-> NoSession]
    /\ ip_tokens = [ip \in TrackedIps |-> <<>>]
    /\ ip_failed_counts = [ip \in TrackedIps |-> <<>>]
    /\ ssh_loaded \in BOOLEAN
    /\ call = None
    /\ ret = None
    /\ ip_tz = [ip \in TrackedIps |-> {}]
    /\ observed = <<>>
    /\ notification_bus \in BOOLEAN
    /\ settings \in TelegramSettings
    /\ running = FALSE
    /\ queue = <<>>
    /\ worker = NoWorker
    /\ dedup_cache = {}
    /\ send_timestamps = <<>>
    /\ clock = 0
    /\ bus_log = <<>>
    /\ enq = None

\* main.py: lifespan neither creates nor starts a NotificationBus
InitApp ==
    /\ Init
    /\ notification_bus = FALSE
    /\ settings = [telegram_min_severity |-> "HIGH",
                   telegram_rate_limit_per_min |-> 2,
                   telegram_dedup_window_seconds |-> 60]

-----------------------------------------------------------------------------
(* POST /api/v1/ingest/flow, one request at a time *)

ingest_flow_event(flow, ts) ==
    LET event_id == raw_seq + 1
        detection == analyze_flow(flow)
    IN
    /\ nreq < MaxRequests
    /\ nreq' = nreq + 1
    /\ raw_seq' = event_id
    /\ raw_events' = raw_events \cup {RawEventRow(event_id, ts, "flow", flow)}
    /\ IF detection = None
       THEN /\ resp' = IngestResponse(event_id, None)
            /\ UNCHANGED <<detections, det_seq>>
       ELSE LET det == detection[1]
                hits == dedup_query(detections, det, ts)
            IN
            IF hits # {}
            THEN \E existing \in hits :
                    /\ detections' = update_detection(detections, existing.id,
                                          new_occurrences(existing), ts)
                    /\ resp' = IngestResponse(event_id, Some(existing.id))
                    /\ UNCHANGED det_seq
            ELSE IF cooldown_query(detections, det, ts) # {}
            THEN /\ resp' = IngestResponse(event_id, None)
                 /\ UNCHANGED <<detections, det_seq>>
            ELSE /\ det_seq' = det_seq + 1
                 /\ detections' = detections \cup
                        {FlowDetectionRow(det_seq + 1, ts, event_id, det)}
                 /\ resp' = IngestResponse(event_id, Some(det_seq + 1))
    /\ UNCHANGED <<sess, sshVars, tzVars, busVars>>

IngestFlow == \E flow \in Flows, ts \in Times : ingest_flow_event(flow, ts)

NextFlowSeq == IngestFlow

\* The flow path does not read the SSH model
InitFlow == InitApp /\ ssh_loaded = FALSE

SpecFlowSeq == InitFlow /\ [][NextFlowSeq]_vars

-----------------------------------------------------------------------------
(* POST /api/v1/ingest/flow when the storage fails: the statement at       *)
(* point raises, the except branch rolls the session back and the request  *)
(* ends with HTTP 500                                                      *)

\* the statements after insert_raw_event that write: the UPDATE of a merge,
\* the INSERT of a new detection, the COMMIT
StoragePoints == {"update", "insert", "commit"}

\* the request reaches the statement
reaches(flow, ts, point) ==
    LET detection == analyze_flow(flow) IN
    CASE point = "commit" -> TRUE
      [] point = "update" ->
            detection # None /\ dedup_query(detections, detection[1], ts) # {}
      [] point = "insert" ->
            /\ detection # None
            /\ dedup_query(detections, detection[1], ts) = {}
            /\ cooldown_query(detections, detection[1], ts) = {}

\* the id sequences keep the values drawn, the tables lose every row the
\* session flushed
ingest_flow_event_storage_error(flow, ts, point) ==
    LET detection == analyze_flow(flow)
        inserted == /\ point = "commit"
                    /\ detection # None
                    /\ dedup_query(detections, detection[1], ts) = {}
                    /\ cooldown_query(detections, detection[1], ts) = {}
    IN
    /\ nreq < MaxRequests
    /\ reaches(flow, ts, point)
    /\ nreq' = nreq + 1
    /\ raw_seq' = raw_seq + 1
    /\ det_seq' = IF inserted THEN det_seq + 1 ELSE det_seq
    /\ resp' = HTTPError("storage")
    /\ UNCHANGED <<detections, raw_events, sess, sshVars, tzVars, busVars>>

IngestFlowStorageError ==
    \E flow \in ConcFlows, ts \in ConcTimes, point \in StoragePoints :
        ingest_flow_event_storage_error(flow, ts, point)

IngestFlowNoError ==
    \E flow \in ConcFlows, ts \in ConcTimes : ingest_flow_event(flow, ts)

NextFlowFault == IngestFlowNoError \/ IngestFlowStorageError

SpecFlowFault == InitFlow /\ [][NextFlowFault]_vars

-----------------------------------------------------------------------------
(* POST /api/v1/ingest/flow, concurrent requests.  Each request has its    *)
(* own session (one transaction, READ COMMITTED): what it flushed is seen  *)
(* by the others only after its commit.  A request gives way to the others *)
(* at each await of a statement.                                           *)

\* ensure_device upserts the row of the device and holds its row lock until
\* the transaction ends: a second request of the same device waits there
DeviceLocked(device_id) ==
    \E o \in 1..MaxSessions :
        sess[o].pc # "idle" /\ sess[o].device_id = device_id

\* An UPDATE waits while another open transaction has updated the same row
RowLocked(s, id) ==
    \E o \in (1..MaxSessions) \ {s} :
        sess[o].upd # None /\ sess[o].upd[1].id = id

\* ensure_device, insert_raw_event (flush) and analyze_flow
BeginFlow(s, device_id, flow, ts) ==
    LET detection == analyze_flow(flow) IN
    /\ sess[s].pc = "idle"
    /\ nreq < MaxConcRequests
    /\ ~DeviceLocked(device_id)
    /\ nreq' = nreq + 1
    /\ raw_seq' = raw_seq + 1
    /\ sess' = [sess EXCEPT ![s] =
                  [NoSession EXCEPT
                     !.pc = IF detection = None THEN "commit" ELSE "dedup",
                     !.device_id = device_id, !.ts = ts,
                     !.event_id = raw_seq + 1, !.flow = Some(flow),
                     !.detection = detection]]
    /\ UNCHANGED <<detections, raw_events, det_seq, resp, sshVars, tzVars, busVars>>

\* The dedup SELECT
DedupStep(s) ==
    /\ sess[s].pc = "dedup"
    /\ LET hits == dedup_query(detections, sess[s].detection[1], sess[s].ts) IN
       IF hits # {}
       THEN \E existing \in hits :
               sess' = [sess EXCEPT ![s].pc = "update",
                                    ![s].existing = Some(existing)]
       ELSE sess' = [sess EXCEPT ![s].pc = "cooldown"]
    /\ UNCHANGED <<dbVars, resp, nreq, sshVars, tzVars, busVars>>

\* The UPDATE of occurrences and last_seen
UpdateStep(s) ==
    /\ sess[s].pc = "update"
    /\ LET existing == sess[s].existing[1] IN
       /\ ~RowLocked(s, existing.id)
       /\ sess' = [sess EXCEPT
                     ![s].pc = "commit",
                     ![s].detection_id = Some(existing.id),
                     ![s].upd = Some([id |-> existing.id,
                                      occurrences |-> new_occurrences(existing),
                                      last_seen |-> sess[s].ts])]
    /\ UNCHANGED <<dbVars, resp, nreq, sshVars, tzVars, busVars>>

\* The cooldown SELECT
CooldownStep(s) ==
    /\ sess[s].pc = "cooldown"
    /\ IF cooldown_query(detections, sess[s].detection[1], sess[s].ts) # {}
       THEN sess' = [sess EXCEPT ![s].pc = "commit"]
       ELSE sess' = [sess EXCEPT ![s].pc = "insert"]
    /\ UNCHANGED <<dbVars, resp, nreq, sshVars, tzVars, busVars>>

\* insert_detection (flush): the id comes from the sequence at once
InsertStep(s) ==
    /\ sess[s].pc = "insert"
    /\ det_seq' = det_seq + 1
    /\ sess' = [sess EXCEPT
                  ![s].pc = "commit",
                  ![s].detection_id = Some(det_seq + 1),
                  ![s].ins = Some(FlowDetectionRow(det_seq + 1, sess[s].ts,
                                     sess[s].event_id, sess[s].detection[1]))]
    /\ UNCHANGED <<detections, raw_events, raw_seq, resp, nreq, sshVars, tzVars, busVars>>

\* session.commit() and the response
CommitStep(s) ==
    /\ sess[s].pc = "commit"
    /\ raw_events' = raw_events \cup
          {RawEventRow(sess[s].event_id, sess[s].ts, "flow", sess[s].flow[1])}
    /\ detections' =
          IF sess[s].upd # None
          THEN update_detection(detections, sess[s].upd[1].id,
                                sess[s].upd[1].occurrences,
                                sess[s].upd[1].last_seen)
          ELSE IF sess[s].ins # None
          THEN detections \cup {sess[s].ins[1]}
          ELSE detections
    /\ resp' = IngestResponse(sess[s].event_id, sess[s].detection_id)
    /\ sess' = [sess EXCEPT ![s] = NoSession]
    /\ UNCHANGED <<det_seq, raw_seq, nreq, sshVars, tzVars, busVars>>

NextFlowConc ==
    \E s \in 1..MaxSessions :
        \/ \E d \in Devices, flow \in ConcFlows, ts \in ConcTimes :
              BeginFlow(s, d, flow, ts)
        \/ DedupStep(s)
        \/ UpdateStep(s)
        \/ CooldownStep(s)
        \/ InsertStep(s)
        \/ CommitStep(s)

SpecFlowConc == InitFlow /\ [][NextFlowConc]_vars

-----------------------------------------------------------------------------
(* Calls of analyze_auth_event *)

\* Scores the model may give a sequence
ModelScores == {0, 600, 950}

\* The score is an input only where the model is consulted
PredChoices(line, timestamp) ==
    LET parsed == parse_auth_line(line) IN
    IF parsed.src_ip # None
       /\ model_consulted(add_event(ip_tokens[parsed.src_ip[1]], 0, timestamp))
    THEN ModelScores ELSE {0}

HistoryLen(line) ==
    LET parsed == parse_auth_line(line) IN
    IF parsed.src_ip = None THEN 0 ELSE Len(ip_tokens[parsed.src_ip[1]])

\* The latest timestamp the tracker holds for the address of the line
LatestSeen(line) ==
    LET parsed == parse_auth_line(line)
        tokens == IF parsed.src_ip = None THEN <<>>
                  ELSE ip_tokens[parsed.src_ip[1]]
    IN IF tokens = <<>> THEN 0
       ELSE CHOOSE t \in {tokens[i][1] : i \in DOMAIN tokens} :
               \A i \in DOMAIN tokens : tokens[i][1] <= t

AnalyzeAuth(line, timestamp, pred) ==
    LET out == analyze_auth_event(line, timestamp, pred) IN
    /\ ip_tokens' = out.ip_tokens
    /\ ip_failed_counts' = out.ip_failed_counts
    /\ ret' = out.ret
    /\ call' = Some([line |-> line, timestamp |-> timestamp, aware |-> TRUE])
    /\ ip_tz' = tz_after(line, TRUE)
    /\ UNCHANGED <<dbVars, resp, nreq, sess, ssh_loaded, observed, busVars>>

SshTimes == {0, 299, 300}

\* The calls: a line and its timestamp
SshInputs ==
    ({FailedPasswordLine("10.0.0.5")} \X SshTimes)
    \cup ({AcceptedPasswordLine("10.0.0.5")} \X {0, 300})
    \cup {<<SessionOpenedLine, 0>>}

\* Any lines, timestamps in any order
NextSSH ==
    \E in \in SshInputs :
        /\ HistoryLen(in[1]) < MaxObservations
        /\ \E pred \in PredChoices(in[1], in[2]) :
              AnalyzeAuth(in[1], in[2], pred)

SpecSSH == InitApp /\ [][NextSSH]_vars

\* timestamps an hour apart, at and just past the retention boundary
RetentionTimes == {0, 3600, 3601}

\* Failures and successes of one address, an hour apart, in any order
NextSSHRetention ==
    \E timestamp \in RetentionTimes :
        \E line \in {FailedPasswordLine("10.0.0.5"),
                     AcceptedPasswordLine("10.0.0.5")} :
            /\ HistoryLen(line) < MaxObservations
            /\ \E pred \in PredChoices(line, timestamp) :
                  AnalyzeAuth(line, timestamp, pred)

SpecSSHRetention == InitApp /\ [][NextSSHRetention]_vars

BurstTimes == {0, 100, 299}

\* One address failing again and again, timestamps in order
NextSSHBurst ==
    \E timestamp \in BurstTimes :
        LET line == FailedPasswordLine("10.0.0.5") IN
        /\ HistoryLen(line) < MaxBurst
        /\ timestamp >= LatestSeen(line)
        /\ \E pred \in PredChoices(line, timestamp) :
              AnalyzeAuth(line, timestamp, pred)

SpecSSHBurst == InitApp /\ [][NextSSHBurst]_vars

-----------------------------------------------------------------------------
(* POST /api/v1/ingest/auth, one request at a time *)

\* datetime.utcnow() of the server when the row is built: the defaults of
\* first_seen and last_seen
WallClock(ts) == {ts, ts + 1}

\* The row insert_detection adds for an SSH detection: no occurrences, no
\* first_seen/last_seen and no address columns are passed
AuthDetectionRow(id, ts, event_id, det, now) ==
    [id |-> id, ts |-> ts, raw_event_id |-> event_id,
     model_name |-> det.model_name, label |-> det.label,
     score |-> det.score, severity |-> det.severity,
     details |-> det.details,
     occurrences |-> 1, first_seen |-> now, last_seen |-> now,
     src_ip |-> None, dst_ip |-> None, src_port |-> None, dst_port |-> None]

\* The device of the payload: device_id and device_ip
AuthDevice == [device_id |-> "sensor-a", device_ip |-> "192.168.1.10"]

\* The alert the handler builds for the detection it inserted
AuthAlert(detection_id, det) ==
    DetectionAlert(detection_id, AuthDevice.device_id, det.label,
                   det.severity, Some(det.details.src_ip),
                   Some(AuthDevice.device_ip))

\* aware: the datetime parsed from payload.timestamp is offset-aware (it
\* ends in Z or an offset); a timestamp without offset, or none, is naive
ingest_auth_event(line, ts, aware, pred) ==
    LET event_id == raw_seq + 1
        out == analyze_auth_event(line, ts, pred)
    IN
    /\ nreq < MaxAuthRequests
    /\ nreq' = nreq + 1
    /\ raw_seq' = event_id
    /\ call' = Some([line |-> line, timestamp |-> ts, aware |-> aware])
    /\ ip_tz' = tz_after(line, aware)
    /\ IF analyze_raises(line, aware)
       THEN \* except: rollback, the raw event goes with it
            /\ ip_tokens' = tokens_after_raise(line, ts)
            /\ ret' = None
            /\ resp' = HTTPError("detector")
            /\ UNCHANGED <<raw_events, detections, det_seq, ip_failed_counts,
                           queue, enq>>
       ELSE /\ raw_events' = raw_events \cup
                                {RawEventRow(event_id, ts, "auth", line)}
            /\ ip_tokens' = out.ip_tokens
            /\ ip_failed_counts' = out.ip_failed_counts
            /\ ret' = out.ret
            /\ IF out.ret # None
               THEN \E now \in WallClock(ts) :
                       /\ det_seq' = det_seq + 1
                       /\ detections' = detections \cup
                             {AuthDetectionRow(det_seq + 1, ts, event_id,
                                               out.ret[1], now)}
                       /\ resp' = IngestResponse(event_id, Some(det_seq + 1))
                       /\ IF notification_bus
                          THEN LET alert == AuthAlert(det_seq + 1, out.ret[1])
                               IN /\ queue' = enqueue_alert(alert).queue
                                  /\ enq' = Some([alert |-> alert,
                                       bus |-> bus_state,
                                       raised |-> enqueue_alert(alert).raised])
                          ELSE UNCHANGED <<queue, enq>>
               ELSE /\ resp' = IngestResponse(event_id, None)
                    /\ UNCHANGED <<detections, det_seq, queue, enq>>
    /\ UNCHANGED <<sess, ssh_loaded, observed, notification_bus, settings,
                   running, worker, dedup_cache, send_timestamps, clock,
                   bus_log>>

AuthInputs ==
    { <<FailedPasswordLine("10.0.0.5"), 0>>,
      <<FailedPasswordLine("10.0.0.5"), 10>>,
      <<SessionOpenedLine, 0>> }

\* The sensors stamp every line with utcnow().isoformat() + "Z"
IngestAuth ==
    \E in \in AuthInputs :
        \E pred \in PredChoices(in[1], in[2]) :
            ingest_auth_event(in[1], in[2], TRUE, pred)

NextAuth == IngestAuth

\* Any client: the timestamp may lack the offset, be malformed or be absent
IngestAuthAnyTimestamp ==
    \E in \in AuthInputs, aware \in BOOLEAN :
        \E pred \in PredChoices(in[1], in[2]) :
            ingest_auth_event(in[1], in[2], aware, pred)

NextAuthTz == IngestAuthAnyTimestamp

\* The threshold rule alone: no SSH model loaded
InitNoSshModel == InitApp /\ ssh_loaded = FALSE

SpecAuthTz == InitNoSshModel /\ [][NextAuthTz]_vars

SpecAuth == InitApp /\ [][NextAuth]_vars

-----------------------------------------------------------------------------
(* POST /api/v1/ingest/suricata *)

\* the patterns of get_suricata_severity a text contains
CriticalPatterns ==
    {"ddos", "dos ", "flood", "amplification", "denial of service",
     "resource exhaustion"}

HighPatterns ==
    {"scan", "brute", "exploit", "attack", "shellcode", "trojan", "malware",
     "backdoor", "command injection", "sql injection", "xss",
     "remote code execution", "rce", "buffer overflow"}

\* A text and the patterns found in its lower case
Text(text, patterns) == [text |-> text, patterns |-> patterns]

get_suricata_severity(signature, category, suricata_severity) ==
    IF (signature.patterns \cup category.patterns) \cap CriticalPatterns # {}
    THEN "CRITICAL"
    ELSE IF (signature.patterns \cup category.patterns) \cap HighPatterns # {}
    THEN "HIGH"
    ELSE IF suricata_severity # None
    THEN (IF suricata_severity[1] = 1 THEN "HIGH"
          ELSE IF suricata_severity[1] = 2 THEN "MEDIUM" ELSE "LOW")
    ELSE "MEDIUM"

\* payload.event: event_type and, for an alert, the alert
SuricataEvents ==
    { [event_type |-> "alert",
       alert |-> Some([signature |-> Text("ET SCAN Nmap", {"scan"}),
                       category |-> Text("", {}), severity |-> Some(2)])],
      [event_type |-> "alert",
       alert |-> Some([signature |-> Text("GPL ICMP PING", {}),
                       category |-> Text("Misc activity", {}),
                       severity |-> Some(3)])],
      [event_type |-> "dns", alert |-> None] }

\* label: signature, or "signature [category]"
suricata_label(alert) ==
    IF alert.category.text = "" THEN <<alert.signature.text>>
    ELSE <<alert.signature.text, alert.category.text>>

SuricataDetectionRow(id, ts, event_id, alert, now) ==
    [id |-> id, ts |-> ts, raw_event_id |-> event_id,
     model_name |-> "suricata", label |-> suricata_label(alert),
     score |-> 1000,
     severity |-> get_suricata_severity(alert.signature, alert.category,
                                        alert.severity),
     details |-> [signature |-> alert.signature.text],
     occurrences |-> 1, first_seen |-> now, last_seen |-> now,
     src_ip |-> None, dst_ip |-> None, src_port |-> None, dst_port |-> None]

\* get_session: async with async_session_factory() closes the session when
\* the request ends; rows flushed and not committed are rolled back
session_close(table, flushed, committed) ==
    IF committed THEN table \cup flushed ELSE table

SuricataResponse(event_id, detection_id) ==
    [IngestResponse(event_id, detection_id) EXCEPT
        !.detail = "Suricata event processed"]

\* The handler flushes the raw event and, for an alert, the detection, and
\* returns; it never calls session.commit()
ingest_suricata_event(event, ts) ==
    LET event_id == raw_seq + 1
        is_alert == event.event_type = "alert" /\ event.alert # None
    IN
    /\ nreq < MaxRequests
    /\ nreq' = nreq + 1
    /\ raw_seq' = event_id
    /\ raw_events' = session_close(raw_events,
                         {RawEventRow(event_id, ts, "suricata", event)}, FALSE)
    /\ IF is_alert
       THEN \E now \in WallClock(ts) :
              /\ det_seq' = det_seq + 1
              /\ detections' = session_close(detections,
                     {SuricataDetectionRow(det_seq + 1, ts, event_id,
                                           event.alert[1], now)}, FALSE)
              /\ resp' = SuricataResponse(event_id, Some(det_seq + 1))
       ELSE /\ resp' = SuricataResponse(event_id, None)
            /\ UNCHANGED <<detections, det_seq>>
    /\ UNCHANGED <<sess, sshVars, tzVars, busVars>>

IngestSuricata ==
    \E event \in SuricataEvents, ts \in ConcTimes :
        ingest_suricata_event(event, ts)

\* The sensors of one host: flow events and IDS events
NextSuricata == IngestSuricata \/ IngestFlowNoError

SpecSuricata == InitFlow /\ [][NextSuricata]_vars

-----------------------------------------------------------------------------
(* POST /api/v1/ingest/auth, concurrent requests.  The handlers are        *)
(* coroutines of one event loop: a request gives way to the others only at *)
(* an await.  analyze_auth_event is a plain function (def, no await): it   *)
(* runs from its first line to its return with no other request between.  *)

ConcAuthInputs ==
    { <<FailedPasswordLine("10.0.0.5"), 0>>,
      <<AcceptedPasswordLine("10.0.0.5"), 10>> }

\* The tracker as the request took it when it started
tracker_view_at_begin(s) == sess[s].view[1]

\* The tracker analyze_auth_event works on: the global ssh_tracker as it is
\* when the call runs
tracker_view(s) == [tokens |-> ip_tokens, failed |-> ip_failed_counts]

\* ensure_device and insert_raw_event, up to the await of its flush
AuthBegin(s, device_id, line, ts) ==
    /\ sess[s].pc = "idle"
    /\ nreq < MaxConcAuthRequests
    /\ ~DeviceLocked(device_id)
    /\ nreq' = nreq + 1
    /\ raw_seq' = raw_seq + 1
    /\ sess' = [sess EXCEPT ![s] =
                  [NoSession EXCEPT
                     !.pc = "analyze", !.device_id = device_id, !.ts = ts,
                     !.event_id = raw_seq + 1, !.line = Some(line),
                     !.view = Some([tokens |-> ip_tokens,
                                    failed |-> ip_failed_counts])]]
    /\ UNCHANGED <<detections, raw_events, det_seq, resp, sshVars, tzVars,
                   busVars>>

\* analyze_auth_event, then insert_detection up to the await of its flush
AuthAnalyzeStep(s) ==
    /\ sess[s].pc = "analyze"
    /\ LET line == sess[s].line[1]
           ts == sess[s].ts
       IN \E pred \in PredChoices(line, ts) :
          LET out == analyze_on(tracker_view(s).tokens, tracker_view(s).failed,
                                line, ts, pred)
          IN
          /\ ip_tokens' = out.ip_tokens
          /\ ip_failed_counts' = out.ip_failed_counts
          /\ ret' = out.ret
          /\ call' = Some([line |-> line, timestamp |-> ts, aware |-> TRUE])
          /\ ip_tz' = tz_after(line, TRUE)
          /\ observed' = Append(observed,
                                [line |-> line, timestamp |-> ts, pred |-> pred])
          /\ IF out.ret # None
             THEN \E now \in WallClock(ts) :
                    /\ det_seq' = det_seq + 1
                    /\ sess' = [sess EXCEPT
                          ![s].pc = "commit",
                          ![s].detection = out.ret,
                          ![s].detection_id = Some(det_seq + 1),
                          ![s].ins = Some(AuthDetectionRow(det_seq + 1, ts,
                                       sess[s].event_id, out.ret[1], now))]
             ELSE /\ sess' = [sess EXCEPT ![s].pc = "commit"]
                  /\ UNCHANGED det_seq
    /\ UNCHANGED <<detections, raw_events, raw_seq, resp, nreq, ssh_loaded,
                   busVars>>

\* enqueue_alert when a bus is set, session.commit() and the response
AuthCommitStep(s) ==
    /\ sess[s].pc = "commit"
    /\ raw_events' = raw_events \cup
          {RawEventRow(sess[s].event_id, sess[s].ts, "auth", sess[s].line[1])}
    /\ detections' = IF sess[s].ins # None
                     THEN detections \cup {sess[s].ins[1]} ELSE detections
    /\ resp' = IngestResponse(sess[s].event_id, sess[s].detection_id)
    /\ IF sess[s].ins # None /\ notification_bus
       THEN LET alert == AuthAlert(sess[s].detection_id[1],
                                   sess[s].detection[1])
            IN /\ queue' = enqueue_alert(alert).queue
               /\ enq' = Some([alert |-> alert, bus |-> bus_state,
                               raised |-> enqueue_alert(alert).raised])
       ELSE UNCHANGED <<queue, enq>>
    /\ sess' = [sess EXCEPT ![s] = NoSession]
    /\ UNCHANGED <<det_seq, raw_seq, nreq, sshVars, tzVars, notification_bus,
                   settings, running, worker, dedup_cache, send_timestamps,
                   clock, bus_log>>

NextAuthConc ==
    \E s \in 1..MaxSessions :
        \/ \E d \in Devices, in \in ConcAuthInputs :
              AuthBegin(s, d, in[1], in[2])
        \/ AuthAnalyzeStep(s)
        \/ AuthCommitStep(s)

SpecAuthConc == InitNoSshModel /\ [][NextAuthConc]_vars

-----------------------------------------------------------------------------
(* notifications/bus.py: start, stop, enqueue_alert and the worker task.   *)
(* The worker is a coroutine: it gives way at queue.get() on an empty      *)
(* queue, at each send and at each sleep between two attempts.             *)

\* what the worker logs when it is done with an alert; now is the time
\* _process_alert read for it
LogEntry(alert, outcome, attempts, now) ==
    [alert |-> alert, outcome |-> outcome, attempts |-> attempts,
     now |-> now]

\* alerts in the bus: queued or in the worker's hands, and those logged
BusLoad ==
    Len(queue) + Len(bus_log) + (IF worker.alert # None THEN 1 ELSE 0)

\* start(): telegram enabled and the token set.  The owner of the bus
\* calls start() and stop() one after the other: no start() runs while a
\* stop() still waits for the worker task.
BusStart ==
    /\ notification_bus
    /\ ~running
    /\ worker.pc \in {"none", "exited"}
    /\ running' = TRUE
    /\ worker' = [NoWorker EXCEPT !.pc = "loop"]
    /\ UNCHANGED <<dbVars, resp, nreq, sess, sshVars, tzVars, notification_bus,
                   settings, queue, dedup_cache, send_timestamps, clock,
                   bus_log, enq>>

\* stop(): _running = False and the sentinel is put; stop then waits for
\* the worker
BusStop ==
    /\ running
    /\ Cardinality({i \in DOMAIN queue : "sentinel" \in DOMAIN queue[i]}) < MaxStops
    /\ running' = FALSE
    /\ queue' = Append(queue, Sentinel)
    /\ UNCHANGED <<dbVars, resp, nreq, sess, sshVars, tzVars, notification_bus,
                   settings, worker, dedup_cache, send_timestamps, clock,
                   bus_log, enq>>

\* stop(): wait_for(worker_task, 5.0) times out while the worker is in a
\* send or a sleep, and the task is cancelled
StopTimeout ==
    /\ ~running
    /\ worker.pc \in {"sending", "backoff"}
    /\ worker' = [NoWorker EXCEPT !.pc = "exited"]
    /\ UNCHANGED <<dbVars, resp, nreq, sess, sshVars, tzVars, notification_bus,
                   settings, running, queue, dedup_cache, send_timestamps,
                   clock, bus_log, enq>>

\* a caller of enqueue_alert
Enqueue(alert, max) ==
    /\ notification_bus
    /\ BusLoad < max
    /\ queue' = enqueue_alert(alert).queue
    /\ enq' = Some([alert |-> alert, bus |-> bus_state,
                    raised |-> enqueue_alert(alert).raised])
    /\ UNCHANGED <<dbVars, resp, nreq, sess, sshVars, tzVars, notification_bus,
                   settings, running, worker, dedup_cache, send_timestamps,
                   clock, bus_log>>

\* the worker has the head of the queue: the sentinel ends the loop, an
\* alert goes through _process_alert up to its first send
Take ==
    LET head == Head(queue) IN
    /\ queue' = Tail(queue)
    /\ IF "sentinel" \in DOMAIN head
       THEN /\ worker' = [NoWorker EXCEPT !.pc = "exited"]
            /\ UNCHANGED <<dedup_cache, send_timestamps, bus_log>>
       ELSE LET r == process_alert(head, clock) IN
            /\ dedup_cache' = r.cache
            /\ send_timestamps' = r.window
            /\ IF r.outcome = "send"
               THEN /\ worker' = [pc |-> "sending", alert |-> Some(head),
                                  attempt |-> 1, now |-> clock,
                                  delay |-> None]
                    /\ UNCHANGED bus_log
               ELSE /\ worker' = [NoWorker EXCEPT !.pc = "loop"]
                    /\ bus_log' = Append(bus_log,
                                         LogEntry(head, r.outcome, 0, clock))

\* while self._running: alert = await self._queue.get()
WorkerLoop ==
    /\ worker.pc = "loop"
    /\ IF ~running
       THEN /\ worker' = [NoWorker EXCEPT !.pc = "exited"]
            /\ UNCHANGED <<queue, dedup_cache, send_timestamps, bus_log>>
       ELSE IF queue = <<>>
       THEN /\ worker' = [NoWorker EXCEPT !.pc = "get"]
            /\ UNCHANGED <<queue, dedup_cache, send_timestamps, bus_log>>
       ELSE Take
    /\ UNCHANGED <<dbVars, resp, nreq, sess, sshVars, tzVars, notification_bus,
                   settings, running, clock, enq>>

\* the worker waiting in queue.get() is woken by an item
WorkerGet ==
    /\ worker.pc = "get"
    /\ queue # <<>>
    /\ Take
    /\ UNCHANGED <<dbVars, resp, nreq, sess, sshVars, tzVars, notification_bus,
                   settings, running, clock, enq>>

\* one send_detection_alert of _send_with_retry returns (ok) or raises
WorkerAttempt(ok) ==
    /\ worker.pc = "sending"
    /\ IF ok
       THEN /\ dedup_cache' = record_sent(dedup_cache,
                                  compute_alert_hash(worker.alert[1]), worker.now)
            /\ send_timestamps' = Append(send_timestamps, worker.now)
            /\ bus_log' = Append(bus_log,
                              LogEntry(worker.alert[1], "Sent", worker.attempt,
                                       worker.now))
            /\ worker' = [NoWorker EXCEPT !.pc = "loop"]
       ELSE IF retry_delay(worker.attempt) # None
       THEN /\ worker' = [worker EXCEPT !.pc = "backoff",
                                         !.delay = retry_delay(worker.attempt)]
            /\ UNCHANGED <<dedup_cache, send_timestamps, bus_log>>
       ELSE /\ bus_log' = Append(bus_log,
                              LogEntry(worker.alert[1], "Failed", worker.attempt,
                                       worker.now))
            /\ worker' = [NoWorker EXCEPT !.pc = "loop"]
            /\ UNCHANGED <<dedup_cache, send_timestamps>>
    /\ UNCHANGED <<dbVars, resp, nreq, sess, sshVars, tzVars, notification_bus,
                   settings, running, queue, clock, enq>>

\* asyncio.sleep(delay) is over: the next attempt
WorkerWake ==
    /\ worker.pc = "backoff"
    /\ worker' = [worker EXCEPT !.pc = "sending", !.attempt = @ + 1,
                                  !.delay = None]
    /\ UNCHANGED <<dbVars, resp, nreq, sess, sshVars, tzVars, notification_bus,
                   settings, running, queue, dedup_cache, send_timestamps,
                   clock, bus_log, enq>>

\* time.time() moves on
Tick(limit) ==
    /\ clock < limit
    /\ clock' = clock + ClockStep
    /\ UNCHANGED <<dbVars, resp, nreq, sess, sshVars, tzVars, notification_bus,
                   settings, running, queue, worker, dedup_cache,
                   send_timestamps, bus_log, enq>>

WorkerStep ==
    \/ WorkerLoop
    \/ WorkerGet
    \/ \E ok \in BOOLEAN : WorkerAttempt(ok)
    \/ WorkerWake

\* Alerts as the auth handler builds them, and one without source address
HighAlert ==
    DetectionAlert(1, "sensor-a", "SSH_BRUTE_FORCE", "HIGH",
                   Some("10.0.0.5"), Some("192.168.1.10"))
MediumAlert ==
    DetectionAlert(2, "sensor-a", "SSH_BRUTE_FORCE", "MEDIUM",
                   Some("10.0.0.5"), Some("192.168.1.10"))
NoSourceAlert ==
    DetectionAlert(4, "sensor-a", "DDoS", "CRITICAL", None,
                   Some("10.0.0.1"))

Alerts == {HighAlert, MediumAlert, NoSourceAlert}

\* A bus has been created and set; it is not started yet
InitBus == Init /\ ssh_loaded = FALSE /\ notification_bus = TRUE

NextBus ==
    \/ BusStart
    \/ BusStop
    \/ StopTimeout
    \/ \E alert \in Alerts : Enqueue(alert, MaxAlerts)
    \/ WorkerStep
    \/ Tick(MaxClock)

SpecBus == InitBus /\ [][NextBus]_vars

\* A burst of alerts sharing one hash, the channel accepting every send
NextDedup ==
    \/ BusStart
    \/ Enqueue(HighAlert, MaxDupAlerts)
    \/ WorkerLoop
    \/ WorkerGet
    \/ WorkerAttempt(TRUE)
    \/ Tick(MaxClock)

SpecDedup == InitBus /\ [][NextDedup]_vars

\* Alerts with pairwise distinct hashes that pass both configured minima
RateAlerts ==
    {DetectionAlert(1, "sensor-a", "SSH_BRUTE_FORCE", "HIGH",
                    Some("10.0.0.5"), Some("192.168.1.10")),
     DetectionAlert(2, "sensor-a", "SSH_BRUTE_FORCE", "CRITICAL",
                    Some("10.0.0.5"), Some("192.168.1.10")),
     DetectionAlert(3, "sensor-a", "SSH_ANOMALY", "HIGH",
                    Some("10.0.0.6"), Some("192.168.1.10")),
     DetectionAlert(4, "sensor-b", "SSH_BRUTE_FORCE", "HIGH",
                    Some("10.0.0.5"), Some("192.168.1.11"))}

\* the alert is in the bus or was logged by it
Handled(alert) ==
    \/ \E i \in DOMAIN queue : queue[i] = alert
    \/ \E i \in DOMAIN bus_log : bus_log[i].alert = alert
    \/ worker.alert = Some(alert)

\* every alert is given to the bus once
EnqueueOnce(alert) ==
    /\ ~Handled(alert)
    /\ Enqueue(alert, MaxRateAlerts)

NextRate ==
    \/ BusStart
    \/ \E alert \in RateAlerts : EnqueueOnce(alert)
    \/ WorkerLoop
    \/ WorkerGet
    \/ WorkerAttempt(TRUE)
    \/ Tick(MaxRateClock)

SpecRate == InitBus /\ [][NextRate]_vars

\* POST /api/v1/ingest/auth when session.commit() raises: the handler has
\* analysed the line, flushed the raw event and the detection and given the
\* alert to the bus; the except branch rolls the session back (both rows
\* go, the sequences keep the values drawn) and the request ends with
\* HTTP 500.  The tracker and the queue are not part of the transaction.
ingest_auth_event_commit_error(line, ts, pred) ==
    LET event_id == raw_seq + 1
        out == analyze_auth_event(line, ts, pred)
    IN
    /\ nreq < MaxAuthRequests
    /\ ~analyze_raises(line, TRUE)
    /\ nreq' = nreq + 1
    /\ raw_seq' = event_id
    /\ call' = Some([line |-> line, timestamp |-> ts, aware |-> TRUE])
    /\ ip_tz' = tz_after(line, TRUE)
    /\ ip_tokens' = out.ip_tokens
    /\ ip_failed_counts' = out.ip_failed_counts
    /\ ret' = out.ret
    /\ resp' = HTTPError("storage")
    /\ IF out.ret # None
       THEN /\ det_seq' = det_seq + 1
            /\ IF notification_bus
               THEN LET alert == AuthAlert(det_seq + 1, out.ret[1])
                    IN /\ queue' = enqueue_alert(alert).queue
                       /\ enq' = Some([alert |-> alert, bus |-> bus_state,
                                       raised |-> enqueue_alert(alert).raised])
               ELSE UNCHANGED <<queue, enq>>
       ELSE UNCHANGED <<det_seq, queue, enq>>
    /\ UNCHANGED <<raw_events, detections, sess, ssh_loaded, observed,
                   notification_bus, settings, running, worker, dedup_cache,
                   send_timestamps, clock, bus_log>>

\* one address failing again and again
CommitInputs == {<<FailedPasswordLine("10.0.0.5"), 0>>}

IngestAuthCommitted ==
    \E in \in CommitInputs :
        \E pred \in PredChoices(in[1], in[2]) :
            ingest_auth_event(in[1], in[2], TRUE, pred)

IngestAuthCommitError ==
    \E in \in CommitInputs :
        \E pred \in PredChoices(in[1], in[2]) :
            ingest_auth_event_commit_error(in[1], in[2], pred)

\* The auth handler, its commit succeeding or failing, beside a bus whose
\* channel accepts every send
NextAuthCommit ==
    \/ BusStart
    \/ IngestAuthCommitted
    \/ IngestAuthCommitError
    \/ WorkerLoop
    \/ WorkerGet
    \/ WorkerAttempt(TRUE)

SpecAuthCommit == InitBus /\ [][NextAuthCommit]_vars

\* The ingest handlers beside a bus that has been set and can be started
NextNotify ==
    \/ BusStart
    \/ IngestAuth
    \/ IngestFlowNoError

SpecNotify == InitBus /\ [][NextNotify]_vars

-----------------------------------------------------------------------------
(* What one flow ingest step did, read off the tables and the response *)

\* The raw event the step stored: the request's timestamp and flow
NewRawEvent == CHOOSE e \in raw_events' : e.id = raw_seq'

FlowStep == nreq' = nreq + 1 /\ raw_seq' = raw_seq + 1

\* The dedup bucket of a candidate and of a stored Detection; an absent,
\* empty or zero field of the candidate is an absent field of the bucket
CandKey(det) ==
    <<det.model_name, det.label, StrOrNone(det.details.src_ip),
      StrOrNone(det.details.dst_ip), IntOrNone(det.details.dst_port)>>

RowKey(r) == <<r.model_name, r.label, r.src_ip, r.dst_ip, r.dst_port>>

CandSrcLabel(det) ==
    <<det.model_name, StrOrNone(det.details.src_ip), det.label>>

RowSrcLabel(r) == <<r.model_name, r.src_ip, r.label>>

KeyPresent(det) ==
    /\ det.details.src_ip # ""
    /\ det.details.dst_ip # ""
    /\ det.details.dst_port # 0

\* Detections of the candidate's bucket inside the dedup window
InDedupWindow(det, ts) ==
    {r \in detections :
        RowKey(r) = CandKey(det) /\ r.ts > ts - ml_dedup_window_seconds}

\* Detections of the candidate's source and label inside the cooldown window
InCooldownWindow(det, ts) ==
    {r \in detections :
        RowSrcLabel(r) = CandSrcLabel(det)
        /\ r.ts > ts - ml_cooldown_seconds_per_src}

\* The step merged the candidate into row r
MergedInto(r, ts) ==
    /\ r \in detections
    /\ detections' = (detections \ {r}) \cup
          {[r EXCEPT !.occurrences = r.occurrences + 1, !.last_seen = ts]}
    /\ resp'.detection_id = Some(r.id)

Merged(ts) == \E r \in detections : MergedInto(r, ts)

Suppressed == detections' = detections /\ resp'.detection_id = None

Created(ts) ==
    \E r \in detections' :
        /\ r \notin detections
        /\ \A o \in detections : o.id # r.id
        /\ detections' = detections \cup {r}
        /\ r.occurrences = 1 /\ r.first_seen = ts /\ r.last_seen = ts
        /\ r.ts = ts
        /\ resp'.detection_id = Some(r.id)

-----------------------------------------------------------------------------
(* C1: a flow candidate is merged into an existing Detection (no new row,  *)
(* occurrences + 1, last_seen = the candidate's timestamp, the response    *)
(* carries the existing id) if and only if a Detection of the same         *)
(* (model_name, label, src_ip, dst_ip, dst_port) lies inside the dedup     *)
(* window of the candidate.                                                *)
C1_MergeIffDedupMatch ==
    [][FlowStep =>
         LET ev == NewRawEvent
             detection == analyze_flow(ev.payload)
         IN detection # None =>
              (Merged(ev.ts) <=> InDedupWindow(detection[1], ev.ts) # {})]_vars

(* C2: a flow candidate without dedup match is suppressed (no row inserted *)
(* or modified, no detection id in the response) if and only if a          *)
(* Detection of the same (model_name, src_ip, label) lies inside the       *)
(* cooldown window; otherwise it creates a Detection with occurrences = 1  *)
(* and first_seen = last_seen = its timestamp.                             *)
C2_SuppressIffCooldownMatch ==
    [][FlowStep =>
         LET ev == NewRawEvent
             detection == analyze_flow(ev.payload)
         IN (detection # None /\ InDedupWindow(detection[1], ev.ts) = {}) =>
              /\ Suppressed <=> InCooldownWindow(detection[1], ev.ts) # {}
              /\ InCooldownWindow(detection[1], ev.ts) = {} => Created(ev.ts)]_vars

(* C5: every persisted Detection has first_seen <= last_seen.              *)
C5_FirstSeenLeLastSeen ==
    \A r \in detections : r.first_seen <= r.last_seen

(* C6: a candidate that arrives less than the dedup window after the       *)
(* Detection of its bucket was last active (its last_seen) is merged into  *)
(* that Detection.  Stated for candidates whose key fields are all         *)
(* present.                                                                *)
C6_MergeWhileLastActive ==
    [][FlowStep =>
         LET ev == NewRawEvent
             detection == analyze_flow(ev.payload)
         IN (detection # None /\ KeyPresent(detection[1])) =>
              \A r \in detections :
                 (/\ RowKey(r) = CandKey(detection[1])
                  /\ r.last_seen <= ev.ts
                  /\ ev.ts - r.last_seen < ml_dedup_window_seconds)
                 => Merged(ev.ts)]_vars

(* C7: at most one Detection is created per (model_name, src_ip, label)    *)
(* within any span of the cooldown window: two Detections of one source    *)
(* and label are at least the cooldown window apart.                       *)
C7_OneCreationPerCooldown ==
    \A r, o \in detections :
        (r.id # o.id /\ RowSrcLabel(r) = RowSrcLabel(o) /\ r.ts <= o.ts)
        => o.ts - r.ts >= ml_cooldown_seconds_per_src

(* C3: dedup lookup and detection insert/update of one flow event are one *)
(* atomic unit: under any interleaving of concurrent flow ingests, two     *)
(* Detection rows of one dedup key inside the dedup window of each other   *)
(* never exist.                                                            *)
C3_NoDuplicateRows ==
    \A r, o \in detections :
        (r.id # o.id /\ RowKey(r) = RowKey(o) /\ r.ts <= o.ts)
        => o.ts - r.ts >= ml_dedup_window_seconds

(* C4: under any interleaving of flow ingests the occurrences of every     *)
(* persisted Detection is at least 1 and never decreases from one          *)
(* committed state to the next.                                            *)
C4_OccurrencesNeverDecrease ==
    [][\A r \in detections :
          \E n \in detections' :
             n.id = r.id /\ n.occurrences >= r.occurrences /\ r.occurrences >= 1]_vars

-----------------------------------------------------------------------------
(* The SSH detector *)

\* The address and the tracker lists the last call worked on
CallIp == parse_auth_line(call[1].line).src_ip[1]

Spread(failed) ==
    \A i, j \in DOMAIN failed :
        failed[i] - failed[j] < ssh_bruteforce_window_seconds

\* The last call observed a FAILED_PASSWORD line and the tracker holds, for
\* its address, n failures and nothing else, all less than the brute-force
\* window apart
OnlyFailuresInWindow(n) ==
    /\ call # None
    /\ parse_auth_line(call[1].line).src_ip # None
    /\ parse_auth_line(call[1].line).token_name = "FAILED_PASSWORD"
    /\ Len(ip_failed_counts[CallIp]) = n
    /\ Len(ip_tokens[CallIp]) = n
    /\ Spread(ip_failed_counts[CallIp])

ModelFlagged == ret # None /\ ret[1].details.model_triggered

(* C9: from empty per-IP state, five FAILED_PASSWORD lines of one address  *)
(* with timestamps within 300 s, the model absent or not flagging: the     *)
(* first four calls return nothing, the fifth returns SSH_BRUTE_FORCE with *)
(* severity MEDIUM.                                                        *)
C9_FifthFailureIsBruteForce ==
    /\ \A n \in 1..4 :
          (OnlyFailuresInWindow(n) /\ ~ModelFlagged) => ret = None
    /\ (OnlyFailuresInWindow(5) /\ ~ModelFlagged) =>
          /\ ret # None
          /\ ret[1].label = "SSH_BRUTE_FORCE"
          /\ ret[1].severity = "MEDIUM"
          /\ ret[1].details.failed_count = 5

C9_Witness ==
    /\ OnlyFailuresInWindow(5)
    /\ ret # None /\ ~ret[1].details.model_triggered
    /\ ret[1].label = "SSH_BRUTE_FORCE"
    /\ \E i \in DOMAIN ip_failed_counts[CallIp] :
          ip_failed_counts[CallIp][i] # call[1].timestamp

(* C10: every candidate the SSH detector returns has its score in [0, 1].  *)
C10_ScoreInUnitInterval ==
    ret # None => (ret[1].score >= 0 /\ ret[1].score <= 1000)

(* C8: SSH candidates go through the dedup decision: two SSH candidates of *)
(* one (model_name, label, src_ip) inside the dedup window leave one       *)
(* Detection, not two rows.                                                *)
C8_SshCandidatesDeduplicated ==
    \A r, o \in detections :
        (/\ r.id # o.id
         /\ r.model_name = "ssh_lstm" /\ o.model_name = "ssh_lstm"
         /\ r.label = o.label
         /\ r.details.src_ip = o.details.src_ip
         /\ r.ts <= o.ts)
        => o.ts - r.ts >= ml_dedup_window_seconds

\* The tracker that running the calls one after the other leaves
RECURSIVE Replay(_)
Replay(calls) ==
    IF calls = <<>>
    THEN [ip_tokens |-> [ip \in TrackedIps |-> <<>>],
          ip_failed_counts |-> [ip \in TrackedIps |-> <<>>]]
    ELSE LET before == Replay(SubSeq(calls, 1, Len(calls) - 1))
             last == calls[Len(calls)]
             out == analyze_on(before.ip_tokens, before.ip_failed_counts,
                               last.line, last.timestamp, last.pred)
         IN [ip_tokens |-> out.ip_tokens,
             ip_failed_counts |-> out.ip_failed_counts]

(* C11: whatever the interleaving of concurrent auth requests, the tracker *)
(* is what the observations made so far leave when run one after the other *)
(* in the order they ran: every token and failure appended is there        *)
C11_TrackerIsSequential ==
    /\ ip_tokens = Replay(observed).ip_tokens
    /\ ip_failed_counts = Replay(observed).ip_failed_counts
    /\ \A ip \in TrackedIps :
          Len(ip_tokens[ip]) =
             Cardinality({i \in DOMAIN observed :
                 parse_auth_line(observed[i].line).src_ip = Some(ip)})

\* two requests of two devices about one address are both past their
\* analysis and not yet committed
C11_Witness ==
    /\ sess[1].pc = "commit" /\ sess[2].pc = "commit"
    /\ sess[1].device_id # sess[2].device_id
    /\ Len(observed) >= 2
    /\ Len(ip_tokens["10.0.0.5"]) = Len(observed)

(* C14: an IDS event answered with status accepted has its raw event     *)
(* stored and, when it is an alert, its detection stored                   *)
C14_AcceptedSuricataEventStored ==
    (resp.status = "accepted" /\ resp.detail = "Suricata event processed") =>
        /\ \E e \in raw_events : e.id = resp.event_id
        /\ resp.detection_id # None =>
              \E d \in detections : d.id = resp.detection_id[1]

\* the ingest step whose write or commit failed
StorageFailed == nreq' = nreq + 1 /\ resp'.detail = "storage"

(* C13: when the detection write or the commit fails, the request fails    *)
(* and the raw event written earlier in the request stays stored           *)
C13_RawEventSurvivesStorageError ==
    [][StorageFailed =>
          /\ resp'.status = "error"
          /\ \E e \in raw_events' : e.id = raw_seq']_vars

\* the auth ingest step whose detector call raised
DetectorRaised ==
    /\ nreq' = nreq + 1
    /\ call' # None
    /\ analyze_raises(call'[1].line, call'[1].aware)

(* C12: a detector exception degrades to "no detection": the request is    *)
(* still accepted and its raw event is stored                              *)
C12_DetectorFailureKeepsRawEvent ==
    [][DetectorRaised =>
          /\ resp'.status = "accepted"
          /\ \E e \in raw_events' : e.id = raw_seq']_vars

\* a step that stores a new Detection row
NewDetection ==
    /\ det_seq' = det_seq + 1
    /\ \E d \in detections' : d.id = det_seq'

(* C15: with the bus set and running, every step that creates a Detection, *)
(* on the SSH path or on the flow path, puts the alert of that Detection   *)
(* at the end of the queue, and an ingest step that creates none leaves    *)
(* the queue as it was.                                                    *)
C15_NewDetectionIsEnqueued ==
    [][(running /\ nreq' = nreq + 1) =>
          IF NewDetection
          THEN /\ Len(queue') = Len(queue) + 1
               /\ queue'[Len(queue')].detection_id = det_seq'
          ELSE queue' = queue]_vars

(* C16: a call of enqueue_alert, in whatever state it finds the bus (never *)
(* started, running, worker in a send or a sleep, stopped), does not raise *)
(* and does not touch the worker: it leaves the queue as it was or with    *)
(* the alert appended, in the same step.                                   *)
C16_EnqueueNeverBlocksNorRaises ==
    [][enq' # enq =>
          /\ ~enq'[1].raised
          /\ worker' = worker
          /\ queue' = IF enq'[1].bus \in {"running", "busy"}
                      THEN Append(queue, enq'[1].alert) ELSE queue]_vars

\* an alert was enqueued while the worker slept between two attempts, and
\* is waiting behind it
C16_Witness ==
    /\ enq # None
    /\ enq[1].bus = "busy"
    /\ worker.pc = "backoff"
    /\ queue # <<>>
    /\ queue[Len(queue)] = enq[1].alert

\* the severity of the alert ranks below the configured minimum
BelowMinimum(alert) ==
    severity_value(alert.severity, 0)
        < severity_value(settings.telegram_min_severity, 3)

\* the worker takes an alert off the queue in this step
Dequeues(alert) ==
    /\ queue # <<>>
    /\ queue' = Tail(queue)
    /\ Head(queue) = alert

(* C17: an alert whose severity ranks below the configured minimum is      *)
(* never in a delivery attempt, is logged as SeverityGated with no         *)
(* attempt, and the step that takes it off the queue leaves the dedup      *)
(* cache and the rate window unchanged.                                    *)
C17_BelowMinimumNeverSent ==
    [][/\ worker'.alert # None => ~BelowMinimum(worker'.alert[1])
       /\ \A i \in DOMAIN bus_log' :
             BelowMinimum(bus_log'[i].alert) =>
                 /\ bus_log'[i].outcome = "SeverityGated"
                 /\ bus_log'[i].attempts = 0
       /\ \A alert \in Alerts :
             (Dequeues(alert) /\ BelowMinimum(alert)) =>
                 /\ dedup_cache' = dedup_cache
                 /\ send_timestamps' = send_timestamps
                 /\ worker'.pc = "loop"]_vars

\* an alert below the minimum was dropped after a delivery had filled the
\* dedup cache and the rate window
C17_Witness ==
    /\ Len(bus_log) >= 2
    /\ bus_log[1].outcome = "Sent"
    /\ bus_log[Len(bus_log)].outcome = "SeverityGated"
    /\ BelowMinimum(bus_log[Len(bus_log)].alert)
    /\ dedup_cache # {}
    /\ send_timestamps # <<>>

\* the dedup window of the first alert processed is not over
WithinDedupWindow ==
    /\ bus_log # <<>>
    /\ clock < bus_log[1].now + settings.telegram_dedup_window_seconds

(* C18: of k alerts sharing one hash processed within the dedup window,    *)
(* the channel accepting, exactly one is attempted, once, and sent; the    *)
(* other k-1 are dropped as duplicates with no attempt.                    *)
C18_OneAttemptPerHashInWindow ==
    WithinDedupWindow =>
        /\ bus_log[1].outcome = "Sent"
        /\ bus_log[1].attempts = 1
        /\ \A i \in 2..Len(bus_log) :
              /\ bus_log[i].outcome = "Deduped"
              /\ bus_log[i].attempts = 0
        /\ worker.pc \notin {"sending", "backoff"}
        /\ Len(send_timestamps) = 1

\* eleven alerts of one hash are through, after time has passed, inside
\* the window
C18_Witness ==
    /\ Len(bus_log) = MaxDupAlerts
    /\ WithinDedupWindow
    /\ clock > 0
    /\ bus_log[MaxDupAlerts].outcome = "Deduped"
    /\ \A i \in DOMAIN bus_log :
          compute_alert_hash(bus_log[i].alert) = compute_alert_hash(HighAlert)

\* sends recorded in the 60 seconds that end now
RecentSends(now) ==
    Cardinality({i \in DOMAIN send_timestamps :
                    send_timestamps[i] >= now - RateWindowSeconds})

\* the alerts logged as sent
SentCount ==
    Cardinality({i \in DOMAIN bus_log : bus_log[i].outcome = "Sent"})

\* no more than 60 seconds have passed since the first alert was processed
WithinRateWindow ==
    /\ bus_log # <<>>
    /\ clock <= bus_log[1].now + RateWindowSeconds

(* C19: alerts of pairwise distinct hashes that pass the gate, the channel *)
(* accepting: while no more than 60 s have passed since the first send,    *)
(* the first rate_limit alerts are sent and every later one is dropped as  *)
(* rate-limited (2 x rate_limit alerts give rate_limit deliveries); and    *)
(* whenever an alert is taken, it is dropped as rate-limited exactly when  *)
(* the sends of the trailing 60 s number rate_limit or more.               *)
C19_RateLimitPerWindow ==
    [][/\ WithinRateWindow' =>
             \A i \in DOMAIN bus_log' :
                /\ i <= settings.telegram_rate_limit_per_min
                      => bus_log'[i].outcome = "Sent"
                /\ i > settings.telegram_rate_limit_per_min
                      => bus_log'[i].outcome = "RateLimited"
       /\ \A alert \in RateAlerts :
             Dequeues(alert) =>
                 IF RecentSends(clock) >= settings.telegram_rate_limit_per_min
                 THEN bus_log' = Append(bus_log,
                                        LogEntry(alert, "RateLimited", 0, clock))
                 ELSE /\ bus_log' = bus_log
                      /\ worker'.pc = "sending"]_vars

\* twice rate_limit alerts are through within 60 s: rate_limit of them
\* sent, rate_limit dropped
C19_Witness ==
    /\ settings.telegram_rate_limit_per_min = 2
    /\ Len(bus_log) = 2 * settings.telegram_rate_limit_per_min
    /\ WithinRateWindow
    /\ clock > 0
    /\ SentCount = settings.telegram_rate_limit_per_min
    /\ Cardinality({i \in DOMAIN bus_log :
                       bus_log[i].outcome = "RateLimited"})
          = settings.telegram_rate_limit_per_min

\* the outcomes an alert can end in
TerminalOutcomes == {"SeverityGated", "Deduped", "RateLimited", "Sent", "Failed"}

(* C20: every alert the worker is done with has been logged once, with one *)
(* of the outcomes SeverityGated, Deduped, RateLimited, Sent and Failed,   *)
(* and the worker is back at the head of its loop, ready for the next      *)
(* alert.                                                                  *)
C20_OneTerminalOutcomeWorkerAlive ==
    [][bus_log' # bus_log =>
          /\ Len(bus_log') = Len(bus_log) + 1
          /\ SubSeq(bus_log', 1, Len(bus_log)) = bus_log
          /\ bus_log'[Len(bus_log')].outcome \in TerminalOutcomes
          /\ worker'.pc = "loop"
          /\ worker'.alert = None]_vars

-----------------------------------------------------------------------------
(* The label functions of the flow detector, called on every label and     *)
(* score of the model                                                      *)

\* scores, in thousandths
Scores == {0, 500, 599, 600, 799, 800, 899, 900, 949, 950, 1000}

NormalizeLabel ==
    /\ \E normalization \in BOOLEAN, label \in LabelStrings :
          /\ call' = Some([fn |-> "normalize_label",
                           normalization |-> normalization, label |-> label])
          /\ ret' = Some(normalize_label(normalization, label))
    /\ UNCHANGED <<dbVars, resp, nreq, sess, ip_tokens, ip_failed_counts,
                   ssh_loaded, tzVars, busVars>>

NetworkSeverity ==
    /\ \E label \in LabelStrings, score \in Scores :
          /\ call' = Some([fn |-> "get_network_ml_severity",
                           label |-> label, score |-> score])
          /\ ret' = Some(get_network_ml_severity(label, score))
    /\ UNCHANGED <<dbVars, resp, nreq, sess, ip_tokens, ip_failed_counts,
                   ssh_loaded, tzVars, busVars>>

NextLabels == NormalizeLabel \/ NetworkSeverity

\* the orderings of four numeric classes
ClassOrders ==
    {c \in [1..4 -> 0..3] : \A i, j \in 1..4 : c[i] = c[j] => i = j}

\* model wrappers: loaded with classes_ in any order, with string classes,
\* with an id outside the label map, with two classes, without classes_,
\* with classes_ of another length, with predict_proba raising, not loaded
Models ==
    {[loaded |-> TRUE, raises |-> FALSE,
      classes |-> Some([i \in 1..4 |-> IntKey(c[i])])] : c \in ClassOrders}
    \cup
    {[loaded |-> TRUE, raises |-> FALSE, classes |-> cs] :
        cs \in {Some(<<StrKey("DoS"), StrKey("Normal Traffic"),
                       StrKey("DDoS"), StrKey("Bots")>>),
                Some(<<IntKey(7), IntKey(1), IntKey(0), IntKey(2)>>),
                Some(<<IntKey(1), IntKey(0)>>),
                Some(<<IntKey(0), IntKey(1), IntKey(2)>>),
                None}}
    \cup
    {[loaded |-> l, raises |-> r, classes |-> None] :
        l \in BOOLEAN, r \in {TRUE}}

\* rows of predict_proba, in thousandths
Probas ==
    {[i \in 1..4 |-> IF i = top THEN 700 ELSE 100] : top \in 1..4}
    \cup {<<400, 400, 100, 100>>, <<100, 300, 300, 300>>,
          <<300, 700>>, <<700, 300>>, <<500, 500>>, <<>>}

Predict ==
    /\ \E model \in Models, proba \in Probas :
          /\ call' = Some([fn |-> "predict", model |-> model,
                           proba |-> proba])
          /\ ret' = Some(predict(model, proba))
    /\ UNCHANGED <<dbVars, resp, nreq, sess, ip_tokens, ip_failed_counts,
                   ssh_loaded, tzVars, busVars>>

NextPredict == Predict

\* NFStream statistics of a flow; None is a field sent as null
Durations == {None} \cup {Some(d) : d \in {0, 1, 49, 50, 51, 100, 200, 1000}}
ByteCounts == {None, Some(0), Some(1000), Some(1500)}
PacketCounts == {<<None, None>>, <<Some(0), Some(0)>>, <<Some(3), Some(0)>>,
                 <<Some(60), Some(40)>>, <<Some(1), Some(2)>>}

FlowStatistics ==
    {[bidirectional_duration_ms |-> d,
      bidirectional_bytes |-> b,
      bidirectional_packets |->
          IF p[1] = None THEN None ELSE Some(p[1][1] + p[2][1]),
      src2dst_packets |-> p[1],
      dst2src_packets |-> p[2]] :
        d \in Durations, b \in ByteCounts, p \in PacketCounts}

MapFlowToFeatures ==
    /\ \E flow_data \in FlowStatistics :
          /\ call' = Some([fn |-> "map_flow_to_features",
                           flow_data |-> flow_data])
          /\ ret' = Some(map_flow_to_features(flow_data))
    /\ UNCHANGED <<dbVars, resp, nreq, sess, ip_tokens, ip_failed_counts,
                   ssh_loaded, tzVars, busVars>>

\* the environments analyze_flow runs in: every value of the six flags, with
\* a few settings of the thresholds, the allowlist and the non-allowed action
FlagSets ==
    [STRICT_FILTERS : BOOLEAN, DISABLE_GATING : BOOLEAN,
     DISABLE_ALLOWLIST : BOOLEAN, DISABLE_BROADCAST_FILTER : BOOLEAN,
     DISABLE_KNOWN_LABEL_CHECK : BOOLEAN, LABEL_NORMALIZATION : BOOLEAN]

NoThresholds == [l \in {} |-> 0]
LabelThresholds == ("DoS" :> 550) @@ ("Port Scanning" :> 950)

FilterSettings ==
    {[label_thresholds |-> NoThresholds, allowlist |-> DefaultAllowlist,
      non_allow_action |-> "ignore"],
     [label_thresholds |-> LabelThresholds, allowlist |-> DefaultAllowlist,
      non_allow_action |-> "map_to_normal"],
     [label_thresholds |-> LabelThresholds, allowlist |-> DefaultAllowlist,
      non_allow_action |-> "log"],
     [label_thresholds |-> NoThresholds, allowlist |-> {},
      non_allow_action |-> "ignore"]}

Env(flags, cfg) ==
    [STRICT_FILTERS |-> flags.STRICT_FILTERS,
     DISABLE_GATING |-> flags.DISABLE_GATING,
     DISABLE_ALLOWLIST |-> flags.DISABLE_ALLOWLIST,
     DISABLE_BROADCAST_FILTER |-> flags.DISABLE_BROADCAST_FILTER,
     DISABLE_KNOWN_LABEL_CHECK |-> flags.DISABLE_KNOWN_LABEL_CHECK,
     LABEL_NORMALIZATION |-> flags.LABEL_NORMALIZATION,
     label_thresholds |-> cfg.label_thresholds,
     allowlist |-> cfg.allowlist,
     non_allow_action |-> cfg.non_allow_action]

Envs == {Env(flags, cfg) : flags \in FlagSets, cfg \in FilterSettings}

\* a classifier with string classes, and the rows it returns: score s for
\* class i and the remainder for the next class
ClassLabels ==
    <<"Normal Traffic", "DoS", "DDOS", "BruteForce", "Port Scanning", "Bots",
      "BENIGN", "unknown", "   ">>

FlowScores == {599, 950}
OverrideScores == {549, 550, 600}

Row(i, s) ==
    [j \in DOMAIN ClassLabels |->
        IF j = i THEN s
        ELSE IF j = (i % Len(ClassLabels)) + 1 THEN 1000 - s
        ELSE 0]

LoadedModel ==
    [loaded |-> TRUE, raises |-> FALSE,
     classes |-> Some([j \in DOMAIN ClassLabels |-> StrKey(ClassLabels[j])])]

ClassifierRuns ==
    {[model |-> LoadedModel, proba |-> Row(i, s)] :
        i \in DOMAIN ClassLabels, s \in FlowScores}
    \cup {[model |-> LoadedModel, proba |-> Row(2, s)] : s \in OverrideScores}
    \cup {[model |-> LoadedModel, proba |-> <<>>],
          [model |-> [LoadedModel EXCEPT !.raises = TRUE],
           proba |-> Row(2, 950)],
          [model |-> [LoadedModel EXCEPT !.loaded = FALSE],
           proba |-> Row(2, 950)]}

\* duration, packets and bytes around each gating minimum
FlowVolumes ==
    {<<None, None, None>>,
     <<Some(1000), Some(100), Some(1000)>>,
     <<Some(99), Some(100), Some(100000)>>,
     <<Some(100), Some(9), Some(100000)>>,
     <<Some(2000), Some(200), Some(1999)>>}

FlowData(src_ip, dst_ip, dst_port, v) ==
    [src_ip |-> src_ip, dst_ip |-> dst_ip, dst_port |-> dst_port,
     bidirectional_duration_ms |-> v[1],
     bidirectional_packets |-> v[2],
     bidirectional_bytes |-> v[3]]

FilteredFlows ==
    {FlowData("10.0.0.5", "10.0.0.9", 22, v) : v \in FlowVolumes}
    \cup {FlowData("10.0.0.5", "10.0.0.9", 67,
                   <<Some(1000), Some(100), Some(1000)>>),
          FlowData("10.0.0.5", "FF02::FB", 22,
                   <<Some(1000), Some(100), Some(1000)>>)}

\* one flow is analysed in one environment
AnalyzeFlow ==
    /\ call = None
    /\ \E env \in Envs, run \in ClassifierRuns, flow_data \in FilteredFlows :
          /\ call' = Some([fn |-> "analyze_flow", env |-> env,
                           model |-> run.model, proba |-> run.proba,
                           flow_data |-> flow_data])
          /\ ret' = Some([prediction |-> predict(run.model, run.proba),
                          detection |-> analyze_flow_filters(
                              env, run.model, run.proba, flow_data)])
    /\ UNCHANGED <<dbVars, resp, nreq, sess, ip_tokens, ip_failed_counts,
                   ssh_loaded, tzVars, busVars>>

NextAnalyzeFlow == AnalyzeFlow

SpecAnalyzeFlow == InitFlow /\ [][NextAnalyzeFlow]_vars

-----------------------------------------------------------------------------
(* models_loader.py: SSHLSTMModel.predict, the window given to the network *)

MaxHistory == 5

\* token2id.get(token_name, token2id.get("OTHER", 0))
token_id_of(vocab, token_name) ==
    IF token_name \in DOMAIN vocab THEN vocab[token_name]
    ELSE IF "OTHER" \in DOMAIN vocab THEN vocab["OTHER"]
    ELSE 0

\* np.zeros(window_size) with the sequence written at its right end, or the
\* last window_size tokens; writing an empty sequence raises and predict
\* returns (0.0, False) without a window
predict_window(token_sequence, size) ==
    LET n == Len(token_sequence) IN
    IF n = 0 THEN None
    ELSE IF n < size
    THEN Some([k \in 1..size |->
                 IF k <= size - n THEN 0 ELSE token_sequence[k - (size - n)]])
    ELSE Some(SubSeq(token_sequence, n - size + 1, n))

\* token2id of a bundle: the ids from 0, or from 1 with 0 left for padding
Vocabularies ==
    {token2id, [t \in DOMAIN token2id |-> token2id[t] + 1]}

\* window_size of a bundle
WindowSizes == {3, 10}

HistoryEvents ==
    {<<0, "FAILED_PASSWORD">>, <<10, "OTHER">>, <<20, "ACCEPTED_PASSWORD">>}

\* what the tracker holds for an address when the model is consulted:
\* events in arrival order
Histories ==
    UNION {[1..n -> HistoryEvents] : n \in MinTokenHistory..MaxHistory}

\* the tracker entries (timestamp, token id) of a history
TrackerTokens(vocab, history) ==
    [k \in DOMAIN history |->
        <<history[k][1], token_id_of(vocab, history[k][2])>>]

\* the window predict builds for the token sequence of a history
ScoreWindow ==
    /\ call = None
    /\ \E vocab \in Vocabularies, history \in Histories, size \in WindowSizes :
          /\ call' = Some([fn |-> "predict", vocab |-> vocab,
                           tokens |-> TrackerTokens(vocab, history),
                           window_size |-> size])
          /\ ret' = Some(predict_window(
                       get_token_sequence(TrackerTokens(vocab, history), size),
                       size))
    /\ UNCHANGED <<dbVars, resp, nreq, sess, ip_tokens, ip_failed_counts,
                   ssh_loaded, tzVars, busVars>>

NextWindow == ScoreWindow

SpecWindow == InitFlow /\ [][NextWindow]_vars

NextFeatures == MapFlowToFeatures

SpecFeatures == InitFlow /\ [][NextFeatures]_vars

SpecPredict == InitFlow /\ [][NextPredict]_vars

SpecLabels == InitFlow /\ [][NextLabels]_vars

-----------------------------------------------------------------------------

\* the item is the shutdown sentinel
IsSentinel(item) == "sentinel" \in DOMAIN item

(* C21: when the worker has exited, no alert that was enqueued before the  *)
(* shutdown sentinel is left in the queue: each was taken and processed    *)
(* before the exit.                                                        *)
C21_WorkerDrainsBeforeExit ==
    worker.pc = "exited" =>
        \A i, j \in DOMAIN queue :
            (i < j /\ IsSentinel(queue[j])) => IsSentinel(queue[i])

\* the last call was fn
Called(fn) == call # None /\ call[1].fn = fn

\* label is a case, space or dash variant of the table pattern
VariantOf(label, pattern) ==
    normalization_key(str_lower(str_strip(Chars(label))))
        = normalization_key(str_lower(Chars(pattern)))

\* the variants the normalization is documented with
NormalizationExamples ==
    { <<"PortScan", "Port Scanning">>, <<"portscans", "Port Scanning">>,
      <<"Port Scans", "Port Scanning">>, <<"BruteForce", "Brute Force">>,
      <<"Brute-Force", "Brute Force">>, <<"DDOS", "DDoS">>,
      <<"ddos", "DDoS">>, <<"DOS", "DoS">>, <<"dos", "DoS">>,
      <<"Bots", "Bots">>, <<"Web Attacks", "Web Attacks">>,
      <<"  Normal Traffic  ", "Normal Traffic">>, <<"", "">>,
      <<"   ", "">> }

(* C27: with normalization on, normalize_label gives the canonical form    *)
(* for every case, space or dash variant of a pattern of its table (the    *)
(* documented variants among them), the stripped label for every other     *)
(* label, "" for an empty or blank one, and applying it to its own result  *)
(* changes nothing.                                                        *)
C27_NormalizeLabelCanonical ==
    (Called("normalize_label") /\ call[1].normalization) =>
        LET label == call[1].label
            out == ret[1]
            hits == {i \in DOMAIN LABEL_NORMALIZATION_MAP :
                        VariantOf(label, LABEL_NORMALIZATION_MAP[i][1])}
        IN /\ \A i \in hits : out = LABEL_NORMALIZATION_MAP[i][2]
           /\ hits = {} => out = Str(str_strip(Chars(label)))
           /\ \A e \in NormalizationExamples : e[1] = label => out = e[2]
           /\ normalize_label(TRUE, out) = out

\* a dash variant was normalized
C27_Witness ==
    /\ Called("normalize_label")
    /\ call[1].normalization
    /\ call[1].label = "Brute-Force"
    /\ ret = Some("Brute Force")

\* the precedence of the severity rule: ddos, dos, brute or web, scan or
\* bot, then the score bands
SeverityByRule(label, score) ==
    IF InLabelLower("ddos", label) THEN "CRITICAL"
    ELSE IF InLabelLower("dos", label)
    THEN (IF score >= 900 THEN "CRITICAL" ELSE "HIGH")
    ELSE IF InLabelLower("brute", label) \/ InLabelLower("web", label)
    THEN "HIGH"
    ELSE IF InLabelLower("scan", label) \/ InLabelLower("bot", label)
    THEN "MEDIUM"
    ELSE IF score >= 950 THEN "HIGH"
    ELSE IF score >= 800 THEN "MEDIUM"
    ELSE "LOW"

(* C28: the severity of a network detection is, for every label and score, *)
(* CRITICAL for a label containing ddos; for one containing dos CRITICAL   *)
(* from score 0.90 and HIGH below; HIGH for brute or web; MEDIUM for scan  *)
(* or bot; else HIGH from 0.95, MEDIUM from 0.80, LOW below.               *)
C28_NetworkSeverityRule ==
    Called("get_network_ml_severity") =>
        ret[1] = SeverityByRule(call[1].label, call[1].score)

\* the largest probability of the row
MaxProba(proba) == CHOOSE p \in {proba[i] : i \in DOMAIN proba} :
                      \A i \in DOMAIN proba : proba[i] <= p

\* the label of a class value: itself when a string, else the entry of
\* the label map
LabelOfClass(key) ==
    IF key[1] = "str" THEN key[2] ELSE inverse_label_map[key[2] + 1]

\* predict ran on a loaded model whose classes_ match the row and are in
\* the label map
PredictedThroughClasses ==
    /\ Called("predict")
    /\ call[1].model.loaded
    /\ ~call[1].model.raises
    /\ call[1].proba # <<>>
    /\ call[1].model.classes # None
    /\ Len(call[1].model.classes[1]) = Len(call[1].proba)
    /\ \A i \in DOMAIN call[1].model.classes[1] :
          LET key == call[1].model.classes[1][i]
          IN key[1] = "int" => key[2] + 1 \in DOMAIN inverse_label_map

(* C29: for every ordering of classes_, the predicted label is the label   *)
(* of the class value at a position where the probability row is largest   *)
(* (the label map entry of that class id when the class is numeric), and   *)
(* the score is the largest probability.                                   *)
C29_LabelThroughClassOrder ==
    PredictedThroughClasses =>
        LET proba == call[1].proba
            classes == call[1].model.classes[1]
        IN /\ ret[1].score = MaxProba(proba)
           /\ \E i \in DOMAIN proba :
                 /\ proba[i] = MaxProba(proba)
                 /\ ret[1].label = LabelOfClass(classes[i])

\* classes_ = [3, 1, 0, 2] and the first column largest: the label is
\* that of class 3, not of index 0
C29_Witness ==
    /\ PredictedThroughClasses
    /\ call[1].model.classes[1]
          = <<IntKey(3), IntKey(1), IntKey(0), IntKey(2)>>
    /\ call[1].proba = <<700, 100, 100, 100>>
    /\ ret[1].label = "DDoS"
    /\ ret[1].score = 700

\* the float is count / (duration_ms / 1000)
IsRate(value, count, duration_ms) ==
    value[1] * duration_ms = count * 1000 * value[2]

\* the float is 0
IsZero(value) == value[1] = 0

\* the counts the four rate features are taken of
RateCounts(flow_data) ==
    [FlowBytesPerS |-> or_zero(flow_data.bidirectional_bytes),
     FlowPacketsPerS |-> or_zero(flow_data.bidirectional_packets),
     FwdPacketsPerS |-> or_zero(flow_data.src2dst_packets),
     BwdPacketsPerS |-> or_zero(flow_data.dst2src_packets)]

(* C26: each of the four rate features is 0 when the duration is below 50  *)
(* ms (0 and a missing duration included) and count / duration in seconds  *)
(* from 50 ms on, the boundary included; 1000 bytes and 100 packets over   *)
(* 1000 ms give 1000 and 100.                                              *)
C26_RateFeatures ==
    Called("map_flow_to_features") =>
        LET flow_data == call[1].flow_data
            duration_ms == or_zero(flow_data.bidirectional_duration_ms)
            counts == RateCounts(flow_data)
        IN /\ \A f \in DOMAIN counts :
                 IF duration_ms < 50 THEN IsZero(ret[1][f])
                 ELSE IsRate(ret[1][f], counts[f], duration_ms)
           /\ (duration_ms = 1000 /\ counts.FlowBytesPerS = 1000
                 /\ counts.FlowPacketsPerS = 100) =>
                 /\ ret[1].FlowBytesPerS[1] = 1000 * ret[1].FlowBytesPerS[2]
                 /\ ret[1].FlowPacketsPerS[1]
                       = 100 * ret[1].FlowPacketsPerS[2]

\* a flow of exactly 50 ms has its rates computed
C26_Witness ==
    /\ Called("map_flow_to_features")
    /\ call[1].flow_data.bidirectional_duration_ms = Some(50)
    /\ call[1].flow_data.bidirectional_bytes = Some(1000)
    /\ call[1].flow_data.bidirectional_packets = Some(100)
    /\ IsRate(ret[1].FlowBytesPerS, 1000, 50)
    /\ ~IsZero(ret[1].FlowBytesPerS)
    /\ ~IsZero(ret[1].BwdPacketsPerS)

\* the normalized label of the analyze_flow call recorded in call
CallLabel ==
    predicted_label(call[1].env, call[1].model, call[1].proba)

\* the detection the analyze_flow call returned
Emitted == ret[1].detection # None

(* C22: analyze_flow never emits a detection whose label is the benign     *)
(* label, empty, UNKNOWN or BENIGN; an unloaded or raising classifier      *)
(* makes predict return (UNKNOWN, 0, empty row) and the flow gives no      *)
(* detection.                                                              *)
C22_NoBenignOrUnknownDetection ==
    Called("analyze_flow") =>
        /\ Emitted =>
              /\ ret[1].detection[1].label = CallLabel
              /\ ret[1].detection[1].label
                    \notin {benign_label, "", "UNKNOWN", "BENIGN"}
        /\ (~call[1].model.loaded \/ call[1].model.raises) =>
              /\ ret[1].prediction
                    = [label |-> "UNKNOWN", score |-> 0, proba |-> <<>>]
              /\ ~Emitted

\* a BENIGN prediction with a high score and the allowlist switched off
C22_Witness ==
    /\ Called("analyze_flow")
    /\ call[1].env.DISABLE_ALLOWLIST
    /\ call[1].env.DISABLE_KNOWN_LABEL_CHECK
    /\ ~is_broadcast(call[1].flow_data)
    /\ ret[1].prediction.label = "BENIGN"
    /\ ret[1].prediction.score = 950
    /\ ~Emitted

(* C23: with the allowlist enabled and non-empty a detection is emitted    *)
(* only for a label in the allowlist; a label outside it gives none,       *)
(* whatever the non-allowed action and the score.                          *)
C23_OnlyAllowlistedLabels ==
    (/\ Called("analyze_flow")
     /\ ~call[1].env.DISABLE_ALLOWLIST
     /\ call[1].env.allowlist # {}) =>
        /\ Emitted => ret[1].detection[1].label \in call[1].env.allowlist
        /\ CallLabel \notin call[1].env.allowlist => ~Emitted

\* Bots at 0.95 under map_to_normal gives no detection
C23_Witness ==
    /\ Called("analyze_flow")
    /\ ~call[1].env.DISABLE_ALLOWLIST
    /\ call[1].env.allowlist = DefaultAllowlist
    /\ call[1].env.non_allow_action = "map_to_normal"
    /\ ~is_broadcast(call[1].flow_data)
    /\ ret[1].prediction.label = "Bots"
    /\ ret[1].prediction.score = 950
    /\ ~Emitted

\* the call got past every stage before the confidence check
PassedEarlierFilters ==
    LET env == call[1].env
    IN /\ call[1].model.loaded
       /\ env.DISABLE_BROADCAST_FILTER \/ ~is_broadcast(call[1].flow_data)
       /\ passes_benign(env, CallLabel)
       /\ passes_known_label(env, CallLabel)
       /\ passes_allowlist(env, CallLabel)
       /\ passes_gating(env, CallLabel, call[1].flow_data)

\* the per-label override of the normalized label, else 0.60
ClaimedThreshold ==
    IF CallLabel \in DOMAIN call[1].env.label_thresholds
    THEN call[1].env.label_thresholds[CallLabel]
    ELSE 600

(* C24: a flow that passed every earlier filter gives a detection exactly  *)
(* when its score is at least the threshold, the per-label override of     *)
(* the normalized label if there is one and 0.60 otherwise; equality       *)
(* passes.                                                                 *)
C24_ConfidenceCheck ==
    (Called("analyze_flow") /\ PassedEarlierFilters) =>
        (Emitted <=> ret[1].prediction.score >= ClaimedThreshold)

\* DoS at exactly its override 0.55 is emitted
C24_Witness ==
    /\ Called("analyze_flow")
    /\ PassedEarlierFilters
    /\ CallLabel = "DoS"
    /\ ClaimedThreshold = 550
    /\ ret[1].prediction.score = 550
    /\ Emitted

\* STRICT_FILTERS set, every other flag at its default
StrictFiltersOnly ==
    /\ call[1].env.STRICT_FILTERS
    /\ \A f \in DOMAIN DefaultFlags \ {"STRICT_FILTERS"} :
          call[1].env[f] = DefaultFlags[f]

\* the flow is below a volume minimum of the gating layer
BelowVolumeMinimum ==
    LET duration_ms == or_zero(call[1].flow_data.bidirectional_duration_ms)
        packets == or_zero(call[1].flow_data.bidirectional_packets)
        bytes == or_zero(call[1].flow_data.bidirectional_bytes)
    IN \/ duration_ms < 100
       \/ packets < 10
       \/ bytes < 1000
       \/ packets * 1000 < 100 * duration_ms
       \/ bytes * 1000 < 1000 * duration_ms

(* C25: with NETWORK_ML_STRICT_FILTERS set and every other flag at its     *)
(* default, a DoS, DDoS or Brute label below a volume minimum gives no     *)
(* detection, and a label the model does not know gives no detection.      *)
C25_StrictFiltersEnableGating ==
    (Called("analyze_flow") /\ StrictFiltersOnly) =>
        /\ (CallLabel \in {"DoS", "DDoS", "Brute Force"} /\ BelowVolumeMinimum)
              => ~Emitted
        /\ CallLabel \notin known_labels => ~Emitted

\* the recorded failures of the address with timestamp in (t - w, t]
FailuresInWindow(failed, t, w) ==
    LET InInterval(ts) == t - w < ts /\ ts <= t
    IN Len(SelectSeq(failed, InInterval))

(* C30: the failed count a call of analyze_auth_event at time t reports    *)
(* is the number of recorded failure events of the address with timestamp  *)
(* in (t - 300, t]: one at t - 300 is left out, one at t is counted, and   *)
(* one later than t is not counted.                                        *)
C30_FailedCountHalfOpenWindow ==
    (call # None /\ ret # None) =>
        ret[1].details.failed_count
            = FailuresInWindow(ip_failed_counts[ret[1].details.src_ip],
                               call[1].timestamp,
                               ssh_bruteforce_window_seconds)

\* what observe(line, t) must return by the rule: none, or the label, for
\* the tracker the call leaves and the score pred the model gives
ObserveRule(line, timestamp, pred) ==
    LET src_ip == parse_auth_line(line).src_ip[1]
        consulted == ssh_loaded /\ Len(ip_tokens'[src_ip]) >= 3
        isModelAnomaly == consulted /\ pred >= model_threshold
        failedCount == FailuresInWindow(ip_failed_counts'[src_ip], timestamp,
                                        ssh_bruteforce_window_seconds)
    IN [candidate |-> isModelAnomaly \/ failedCount >= ssh_bruteforce_threshold,
        label |-> IF failedCount >= ssh_bruteforce_threshold
                  THEN "SSH_BRUTE_FORCE" ELSE "SSH_ANOMALY",
        isModelAnomaly |-> isModelAnomaly,
        modelScore |-> IF consulted THEN pred ELSE 0]

(* C31: a call returns a candidate exactly when the model flags or the     *)
(* failed count of the window reaches the threshold; the label is          *)
(* SSH_BRUTE_FORCE when the count reaches the threshold, SSH_ANOMALY when   *)
(* only the model flags; with fewer than 3 history entries the model is    *)
(* not consulted: it does not flag and the model score is 0.               *)
C31_CandidateIffAnomaly ==
    [][\A in \in SshInputs, pred \in ModelScores :
         (/\ AnalyzeAuth(in[1], in[2], pred)
          /\ parse_auth_line(in[1]).src_ip # None) =>
            LET rule == ObserveRule(in[1], in[2], pred)
            IN /\ ret' # None <=> rule.candidate
               /\ ret' # None =>
                     /\ ret'[1].label = rule.label
                     /\ ret'[1].details.model_triggered = rule.isModelAnomaly
                     /\ ret'[1].details.model_score = rule.modelScore]_vars

\* the token ids of the call in time order, arrival order among equals
TimeOrderedIds ==
    LET sorted == SortedByTime(call[1].tokens)
    IN [k \in DOMAIN sorted |-> sorted[k][2]]

(* C32: a token sequence shorter than the window is padded on the left    *)
(* with the id of the OTHER token up to the window length, the real tokens *)
(* in time order at the right end; a longer one keeps its most recent      *)
(* window-size tokens.                                                     *)
C32_LeftPaddedWithOtherId ==
    Called("predict") =>
        LET ids == TimeOrderedIds
            n == Len(ids)
            size == call[1].window_size
            other == token_id_of(call[1].vocab, "OTHER")
        IN /\ ret[1] # None
           /\ Len(ret[1][1]) = size
           /\ \A k \in 1..size :
                 ret[1][1][k] = IF n >= size THEN ids[n - size + k]
                                ELSE IF k <= size - n THEN other
                                ELSE ids[k - (size - n)]

(* C33: after every call that resolves to an address, whatever the token *)
(* of the line, the token history and the failure timestamps of that       *)
(* address hold only entries later than the call's timestamp minus one     *)
(* hour, and the entry just appended is kept.                              *)
C33_StaleStatePruned ==
    (call # None /\ parse_auth_line(call[1].line).src_ip # None) =>
        LET ip == parse_auth_line(call[1].line).src_ip[1]
            t == call[1].timestamp
        IN /\ \A i \in DOMAIN ip_tokens[ip] : ip_tokens[ip][i][1] > t - 3600
           /\ \A i \in DOMAIN ip_failed_counts[ip] :
                 ip_failed_counts[ip][i] > t - 3600
           /\ ip_tokens[ip] # <<>>
           /\ ip_tokens[ip][Len(ip_tokens[ip])][1] = t

\* the worker logged an outcome for an alert in this step
Logged(outcome) ==
    /\ Len(bus_log') = Len(bus_log) + 1
    /\ bus_log'[Len(bus_log')].outcome = outcome

(* C34: the delivery of one alert makes at most 4 attempts; between two    *)
(* attempts it waits 0.5 s, then 1 s, then 2 s; no attempt follows a       *)
(* success; after the fourth failure the alert is dropped without a wait.  *)
C34_AtMostFourAttemptsWithBackoff ==
    [][/\ worker'.attempt <= 4
       /\ (worker'.pc = "backoff" /\ worker.pc # "backoff") =>
             /\ worker.pc = "sending"
             /\ worker'.attempt = worker.attempt
             /\ worker.attempt \in 1..3
             /\ worker'.delay = Some(<<500, 1000, 2000>>[worker.attempt])
       /\ (worker'.pc = "sending" /\ worker'.attempt > 1
             /\ worker' # worker) =>
             /\ worker.pc = "backoff"
             /\ worker'.attempt = worker.attempt + 1
             /\ worker'.alert = worker.alert
       /\ Logged("Sent") =>
             /\ worker'.pc = "loop" /\ worker'.alert = None
             /\ bus_log'[Len(bus_log')].attempts = worker.attempt
       /\ Logged("Failed") =>
             /\ worker.pc = "sending" /\ worker.attempt = 4
             /\ worker'.pc = "loop" /\ worker'.alert = None]_vars

\* an alert dropped after four failed attempts, another sent at its third
C34_Witness ==
    /\ \E i \in DOMAIN bus_log :
          bus_log[i].outcome = "Failed" /\ bus_log[i].attempts = 4
    /\ \E i \in DOMAIN bus_log :
          bus_log[i].outcome = "Sent" /\ bus_log[i].attempts = 3

\* outcomes of an alert that was not delivered
Undelivered == {"SeverityGated", "Deduped", "RateLimited", "Failed"}

\* the rate window lost only timestamps from its left end
IsSuffix(window, of) ==
    \E k \in 0..Len(of) : window = SubSeq(of, k + 1, Len(of))

(* C35 as stated: an alert that is severity-gated, deduped, rate-limited   *)
(* or fails all its attempts leaves the dedup cache and the rate window    *)
(* exactly as they were.                                                   *)
C35_UndeliveredLeavesStateUntouched ==
    [][(\E o \in Undelivered : Logged(o)) =>
          /\ dedup_cache' = dedup_cache
          /\ send_timestamps' = send_timestamps]_vars

(* C35 amended: a hash and a send timestamp are added only by a successful *)
(* delivery.  Every other step of the bus adds nothing and removes only    *)
(* what has expired: cache entries whose expiry is not after the current   *)
(* time and timestamps older than the rate window.                         *)
C35_RecordedOnlyOnSuccess ==
    [][IF Logged("Sent")
       THEN /\ dedup_cache' =
                  record_sent(dedup_cache,
                              compute_alert_hash(worker.alert[1]), worker.now)
            /\ send_timestamps' = Append(send_timestamps, worker.now)
       ELSE /\ dedup_cache' \subseteq dedup_cache
            /\ \A e \in dedup_cache \ dedup_cache' : e[2] <= clock
            /\ IsSuffix(send_timestamps', send_timestamps)
            /\ \A i \in 1..(Len(send_timestamps) - Len(send_timestamps')) :
                  send_timestamps[i] < clock - 60]_vars

\* an alert that failed all its attempts was attempted again and sent, and
\* the only timestamp in the rate window is that of the send
C35_Witness ==
    /\ \E i, j \in DOMAIN bus_log :
          /\ i < j
          /\ bus_log[i].outcome = "Failed"
          /\ bus_log[j].outcome = "Sent"
          /\ bus_log[j].alert = bus_log[i].alert
          /\ send_timestamps = <<bus_log[j].now>>
    /\ \E e \in dedup_cache : e[1] = compute_alert_hash(HighAlert)

\* the alerts waiting in the queue
Waiting == {i \in DOMAIN queue : ~IsSentinel(queue[i])}

(* C36: the queue is bounded: the number of alerts waiting never exceeds a *)
(* fixed capacity, an enqueue on a full queue drops the alert.  Checked    *)
(* for the capacity MaxAlerts - 1, one less than the alerts given to the   *)
(* bus: with any capacity the queue must stay below the number of alerts   *)
(* given once that number exceeds the capacity.                            *)
C36_QueueBounded == Cardinality(Waiting) <= MaxAlerts - 1

\* the alerts the bus holds or has handled
BusAlerts ==
    {queue[i] : i \in Waiting}
        \cup (IF worker.alert = None THEN {} ELSE {worker.alert[1]})
        \cup {bus_log[i].alert : i \in DOMAIN bus_log}

(* C37: an alert is on the bus only for a detection whose transaction      *)
(* committed: every alert queued, in delivery or delivered names a         *)
(* detection that is in the table, also after a request whose commit       *)
(* failed and was rolled back.                                             *)
C37_AlertOnlyForCommittedDetection ==
    \A alert \in BusAlerts :
        \E d \in detections : d.id = alert.detection_id


(* C38: the key values stored on a newly inserted flow Detection (src_ip,  *)
(* dst_ip, dst_port) are the values the dedup and cooldown lookups compare *)
(* against, also when a field is absent, empty or 0: the row a candidate   *)
(* inserts is one the dedup and cooldown lookups of the same candidate     *)
(* select, so a second identical candidate inside the window finds it.     *)
C38_StoredKeyIsLookupKey ==
    [][FlowStep =>
         LET ev == NewRawEvent
             detection == analyze_flow(ev.payload)
         IN detection # None =>
              \A r \in detections' \ detections :
                  /\ r \in DedupMatches(detections', detection[1].label,
                                       ev.ts - ml_dedup_window_seconds,
                                       StrOrEmpty(detection[1].details.src_ip),
                                       StrOrEmpty(detection[1].details.dst_ip),
                                       IntOrZero(detection[1].details.dst_port))
                  /\ r \in CooldownMatches(detections', detection[1].label,
                                       ev.ts - ml_cooldown_seconds_per_src,
                                       StrOrEmpty(detection[1].details.src_ip))]_vars

(* C39: every alert that passes the severity gate and is neither a         *)
(* duplicate nor rate-limited has a delivery attempted, also when an       *)
(* optional field is present with value None: the alerts the worker has    *)
(* finished without any attempt are those below the minimum severity,      *)
(* duplicates and rate-limited ones.                                       *)
C39_HashNeverDropsAlert ==
    \A i \in DOMAIN bus_log :
        bus_log[i].attempts = 0 =>
            bus_log[i].outcome \in {"SeverityGated", "Deduped", "RateLimited"}

\* the alerts of a queue, the stop sentinel left out
AlertsOf(q) == SelectSeq(q, LAMBDA x : "sentinel" \notin DOMAIN x)

\* the alerts the worker has finished, in the order it finished them
LoggedAlerts == [i \in DOMAIN bus_log |-> bus_log[i].alert]

\* the alert the worker is delivering
InHand == IF worker.alert # None THEN <<worker.alert[1]>> ELSE <<>>

\* every alert given to the running bus: finished, in delivery, waiting
Pipeline == LoggedAlerts \o InHand \o AlertsOf(queue)

====
